---------------------------- MODULE Spec2Model ----------------------------
(***************************************************************************)
(* NR-U bandwidth-part assignment: the LBT channel-access controller       *)
(* (NrUeLbt), the terminal/sub-band registry (NrUeBwpManager) and the      *)
(* decision-window scheduler (NrUeAiScheduler), on one simulated clock.    *)
(*                                                                         *)
(* Time is counted in ticks of 0.5 ms (one LBT slot).  Floating values     *)
(* (lbtFailureRate, wifiOccupancy, avgBitsPerRb, metrics) are exact        *)
(* rationals <<numerator, denominator>> in lowest terms.                   *)
(***************************************************************************)
EXTENDS Integers, Sequences, FiniteSets, TLC

VARIABLES
  now,            \* Simulator::Now (), in ticks
  events,         \* the simulator's pending events, in execution order
  msTruncates,    \* whether MilliSeconds (double) drops the fraction
  m_cwMin,        \* NrUeLbt::m_cwMin
  m_cwMax,        \* NrUeLbt::m_cwMax
  m_bwpStates,    \* NrUeLbt::m_bwpStates
  lbtAdded,       \* the ids given to NrUeLbt::AddBwp
  nArrivals,      \* how many interference arrivals have been handled
  m_bwpMap,       \* NrUeBwpManager::m_bwpMap
  m_ueMap,        \* NrUeBwpManager::m_ueMap
  phase,          \* how far the set-up has got
  m_bwpStats,     \* NrUeAiScheduler::m_bwpStats
  m_ueStats,      \* NrUeAiScheduler::m_ueStats
  m_maxScheduledUes, \* NrUeAiScheduler::m_maxScheduledUes
  m_currentWindow,   \* NrUeAiScheduler::m_currentWindow
  m_algorithmType,   \* NrUeAiScheduler::m_algorithmType
  m_rlEnv,        \* whether NrUeAiScheduler::m_rlEnv is set
  m_epsilon,      \* NrUeAiScheduler::m_epsilon
  m_epsilonMin,   \* NrUeAiScheduler::m_epsilonMin
  m_epsilonDecay, \* NrUeAiScheduler::m_epsilonDecay
  m_totalReward,  \* GymBwpRlEnv::m_totalReward
  phy,            \* what the PHY collaborator answers
  last            \* the last operation, its arguments and what it returned

vars == <<now, events, msTruncates, m_cwMin, m_cwMax, m_bwpStates, lbtAdded,
          nArrivals, m_bwpMap, m_ueMap, phase, m_bwpStats, m_ueStats,
          m_maxScheduledUes, m_currentWindow, m_algorithmType, m_rlEnv,
          m_epsilon, m_epsilonMin, m_epsilonDecay, m_totalReward, phy, last>>

lbtVars == <<m_cwMin, m_cwMax, m_bwpStates, lbtAdded, nArrivals>>
regVars == <<m_bwpMap, m_ueMap, phase>>
rlVars == <<m_rlEnv, m_epsilon, m_epsilonMin, m_epsilonDecay, m_totalReward>>
schedVars == <<m_bwpStats, m_ueStats, m_maxScheduledUes, m_currentWindow,
               m_algorithmType, rlVars, phy>>

----------------------------------------------------------------------------
(* Bounds of the model *)

\* the clock stops advancing by single ticks here
MaxTime == 4

\* ChannelAccessRequest is called at most this often, over all sub-bands
MaxAttempts == 3

\* at most this many interference arrivals are handled, over all sub-bands
MaxArrivals == 2

\* calls from outside are made while fewer than this many events are pending
MaxQueued == 3

\* 2^16: the width of the uint16_t fields
U16 == 65536

----------------------------------------------------------------------------
(* Exact rationals *)

RECURSIVE GCD(_, _)
GCD(a, b) == IF b = 0 THEN a ELSE GCD(b, a % b)

Abs(x) == IF x < 0 THEN -x ELSE x

Rat(n, d) ==
  LET g == GCD(Abs(n), Abs(d))
      s == IF d < 0 THEN -1 ELSE 1
  IN  IF n = 0 THEN <<0, 1>> ELSE <<s * (n \div g), s * (d \div g)>>

\* the operands are in lowest terms with positive denominators; common factors
\* are taken out before multiplying so that the products stay small
RatAdd(x, y) ==
  LET g == GCD(x[2], y[2])
  IN  Rat(x[1] * (y[2] \div g) + y[1] * (x[2] \div g), (x[2] \div g) * y[2])

RatNeg(x) == <<-x[1], x[2]>>
RatSub(x, y) == RatAdd(x, RatNeg(y))

RatMul(x, y) ==
  LET g == GCD(Abs(x[1]), y[2])
      h == GCD(Abs(y[1]), x[2])
  IN  Rat((x[1] \div g) * (y[1] \div h), (x[2] \div h) * (y[2] \div g))

\* x / y for y > 0
RatDiv(x, y) == RatMul(x, <<y[2], y[1]>>)

RatLess(x, y) == RatSub(x, y)[1] < 0
RatLeq(x, y) == RatSub(x, y)[1] <= 0
RatInt(n) == <<n, 1>>

Min(a, b) == IF a < b THEN a ELSE b
Max(a, b) == IF a > b THEN a ELSE b

----------------------------------------------------------------------------
(* The simulator: a queue of events ordered by time, first scheduled first *)

\* the insertion that puts an event before the pending ones of its timestamp
RECURSIVE InsertEventLifo(_, _)
InsertEventLifo(q, e) ==
  IF q = <<>> THEN <<e>>
  ELSE IF Head(q).time < e.time THEN <<Head(q)>> \o InsertEventLifo(Tail(q), e)
  ELSE <<e>> \o q

RECURSIVE InsertEvent(_, _)
InsertEvent(q, e) ==
  IF q = <<>> THEN <<e>>
  ELSE IF Head(q).time <= e.time THEN <<Head(q)>> \o InsertEvent(Tail(q), e)
  ELSE <<e>> \o q

Schedule(q, delay, kind, a, b) ==
  InsertEvent(q, [time |-> now + delay, kind |-> kind, a |-> a, b |-> b])

\* a delay of zero whatever the argument
MilliSecondsHalfNone(halfMs) == 0

\* MilliSeconds (halfMs * 0.5): the overload taking an integer drops the half
MilliSecondsHalf(halfMs) ==
  IF msTruncates THEN 2 * (halfMs \div 2) ELSE halfMs

\* MilliSeconds (ms) for a whole number of milliseconds
MilliSeconds(ms) == 2 * ms

TicksPerSecond == 2000

----------------------------------------------------------------------------
(* NrUeLbt *)

BwpIds == {0, 1}
NoState == [absent |-> TRUE]

\* wifiPoissonMean values (arrivals per second) AddBwp is called with
WifiMeans == {500, 1000}

CwMinValues == {1, 2}
CwMaxValues == {2, 4}

McotDuration == 5

\* what std::map::operator[] creates for a key it does not hold
ZeroState ==
  [bwpId |-> 0, currentCw |-> 0, wifiPoissonMean |-> 0,
   wifiOccupancy |-> <<0, 1>>, lbtFailureRate |-> <<0, 1>>,
   totalAttempts |-> 0, totalFailures |-> 0,
   channelBusyUntil |-> 0, channelOccupiedUntil |-> 0, lastUpdateTime |-> 0]

\* m_bwpStates[bwpId], as operator[] reads it
StateOf(bwpId) ==
  IF m_bwpStates[bwpId] = NoState THEN ZeroState ELSE m_bwpStates[bwpId]

NewBwpState(bwpId, wifiPoissonMean) ==
  [bwpId |-> bwpId, currentCw |-> m_cwMin, wifiPoissonMean |-> wifiPoissonMean,
   wifiOccupancy |-> <<0, 1>>, lbtFailureRate |-> <<0, 1>>,
   totalAttempts |-> 0, totalFailures |-> 0,
   channelBusyUntil |-> 0, channelOccupiedUntil |-> 0, lastUpdateTime |-> now]

\* an interval of no duration
WifiIntervalNone(st) == 0

\* Seconds (1.0) / state.wifiPoissonMean
WifiInterval(st) == TicksPerSecond \div st.wifiPoissonMean

ScheduleWifiInterference(q, st, bwpId) ==
  Schedule(q, WifiInterval(st), "wifi", bwpId, 0)

AddBwp(bwpId, wifiPoissonMean) ==
  /\ m_bwpStates' = [m_bwpStates EXCEPT ![bwpId] = NewBwpState(bwpId, wifiPoissonMean)]
  /\ events' = ScheduleWifiInterference(events, NewBwpState(bwpId, wifiPoissonMean), bwpId)
  /\ lbtAdded' = lbtAdded \cup {bwpId}
  /\ last' = [op |-> "AddBwp", a |-> bwpId, b |-> 0, ret |-> "void"]
  /\ UNCHANGED <<now, msTruncates, m_cwMin, m_cwMax, nArrivals, regVars, schedVars>>

\* busySlots = 1 + (rand () % 5)
BusySlots == 1..5

\* the double +inf, which a division of a positive double by 0.0 gives
Infinity == <<1, 0>>

WifiBusy(st, busySlots) ==
  [st EXCEPT
     !.channelBusyUntil = now + MilliSecondsHalf(busySlots),
     !.wifiOccupancy =
        IF now = st.lastUpdateTime \/ st.wifiOccupancy = Infinity
        THEN Infinity
        ELSE RatAdd(RatMul(st.wifiOccupancy, <<9, 10>>),
                    RatMul(<<1, 10>>,
                           \* busySlots * 0.5 / delta.GetSeconds ()
                           Rat(busySlots * TicksPerSecond,
                               2 * (now - st.lastUpdateTime)))),
     !.lastUpdateTime = now]

\* what ScheduleWifiInterference leaves of the queue q and of the run.  With
\* wifiPoissonMean = 0, which only a state made by operator[] has, Seconds (1.0)
\* is divided by zero: a build with assertions aborts, any other converts the
\* quotient to a Time, which is undefined; no delay and one second stand for
\* the delays that can come back.
ScheduleOutcomes(q, st, bwpId) ==
  IF st.wifiPoissonMean = 0
  THEN {[ev |-> q, phase |-> "aborted"]}
       \cup {[ev |-> Schedule(q, delay, "wifi", bwpId, 0), phase |-> phase] :
               delay \in {0, TicksPerSecond}}
  ELSE {[ev |-> ScheduleWifiInterference(q, st, bwpId), phase |-> phase]}

HandleWifiInterference(bwpId) ==
  /\ phase # "aborted"
  /\ events # <<>>
  /\ Head(events).kind = "wifi"
  /\ Head(events).a = bwpId
  /\ Head(events).time = now
  /\ nArrivals < MaxArrivals
  /\ nArrivals' = nArrivals + 1
  /\ \E busySlots \in BusySlots :
       LET st == WifiBusy(StateOf(bwpId), busySlots)
       IN  /\ m_bwpStates' = [m_bwpStates EXCEPT ![bwpId] = st]
           /\ \E outcome \in ScheduleOutcomes(Tail(events), st, bwpId) :
                /\ events' = outcome.ev
                /\ phase' = outcome.phase
           /\ last' = [op |-> "HandleWifiInterference", a |-> bwpId,
                       b |-> 0, ret |-> "void"]
  /\ UNCHANGED <<now, msTruncates, m_cwMin, m_cwMax, lbtAdded, m_bwpMap, m_ueMap,
                 schedVars>>

\* DoDispose: every sub-band's state is destroyed; no pending event is cancelled
DoDispose ==
  /\ phase # "aborted"
  /\ m_bwpStates' = [b \in BwpIds |-> NoState]
  /\ lbtAdded' = {}
  /\ last' = [op |-> "DoDispose", a |-> 0, b |-> 0, ret |-> "void"]
  /\ UNCHANGED <<now, events, msTruncates, m_cwMin, m_cwMax, nArrivals, regVars,
                 schedVars>>

\* UpdateFailureRate with the two weights exchanged
UpdateFailureRateSwapped(st) ==
  [st EXCEPT !.lbtFailureRate =
     RatAdd(RatMul(<<1, 10>>, st.lbtFailureRate),
            RatMul(<<9, 10>>, Rat(st.totalFailures, st.totalAttempts)))]

\* the current rate added to the smoothed one, without the weights
UpdateFailureRateUnweighted(st) ==
  [st EXCEPT !.lbtFailureRate =
     RatAdd(st.lbtFailureRate, Rat(st.totalFailures, st.totalAttempts))]

UpdateFailureRate(st) ==
  [st EXCEPT !.lbtFailureRate =
     RatAdd(RatMul(<<9, 10>>, st.lbtFailureRate),
            RatMul(<<1, 10>>, Rat(st.totalFailures, st.totalAttempts)))]

\* the values m_uniformRandom->GetInteger (0, currentCw - 1) can give; with
\* currentCw = 0 the bound wraps and any uint16_t comes back, of which only
\* whether the backoff lasts zero time is ever read
BackoffDraws(currentCw) ==
  IF currentCw = 0 THEN {0, 1, 2, U16 - 1} ELSE 0..(currentCw - 1)

IccaBusy(st) == now < st.channelBusyUntil

EccaInterrupted(st, backoffSlots) ==
  now + MilliSecondsHalf(backoffSlots) > st.channelBusyUntil

\* the ICCA branch without totalFailures++
IccaDeniedNoFailure(st) ==
  UpdateFailureRate([st EXCEPT !.totalAttempts = @ + 1])

IccaDenied(st) ==
  UpdateFailureRate([st EXCEPT !.totalAttempts = @ + 1, !.totalFailures = @ + 1])

\* the doubling without the cap
NextCwNoCap(currentCw) == 2 * currentCw

NextCw(currentCw) == Min(2 * currentCw, m_cwMax)

\* the ECCA failure branch without the doubling
EccaDeniedKeepsCw(st) ==
  UpdateFailureRate([st EXCEPT !.totalAttempts = @ + 1, !.totalFailures = @ + 1])

EccaDenied(st) ==
  LET u == UpdateFailureRate([st EXCEPT !.totalAttempts = @ + 1,
                                        !.totalFailures = @ + 1])
  IN  [u EXCEPT !.currentCw = NextCw(st.currentCw)]

\* a grant that leaves the contention window as it is
GrantedKeepsCw(st) ==
  [st EXCEPT !.totalAttempts = @ + 1,
             !.channelOccupiedUntil = now + MilliSeconds(McotDuration)]

\* a grant that starts the counters again
GrantedResetsCounters(st) ==
  [st EXCEPT !.totalAttempts = 0,
             !.totalFailures = 0,
             !.currentCw = m_cwMin,
             !.channelOccupiedUntil = now + MilliSeconds(McotDuration)]

Granted(st) ==
  [st EXCEPT !.totalAttempts = @ + 1,
             !.currentCw = m_cwMin,
             !.channelOccupiedUntil = now + MilliSeconds(McotDuration)]

RECURSIVE TotalAttempts(_)
TotalAttempts(ids) ==
  IF ids = {} THEN 0
  ELSE LET id == CHOOSE x \in ids : TRUE
       IN  StateOf(id).totalAttempts + TotalAttempts(ids \ {id})

\* what ChannelAccessRequest does to the sub-band's state, and what it returns
RequestOutcome(bwpId) ==
  LET st == StateOf(bwpId)
  IN  /\ bwpId \in DOMAIN m_bwpStates
      /\ \/ /\ IccaBusy(st)
            /\ m_bwpStates' = [m_bwpStates EXCEPT ![bwpId] = IccaDenied(st)]
            /\ last' = [op |-> "ChannelAccessRequest", a |-> bwpId, b |-> 0,
                        ret |-> "denied_icca"]
         \/ /\ ~IccaBusy(st)
            /\ \E backoffSlots \in BackoffDraws(st.currentCw) :
                 IF EccaInterrupted(st, backoffSlots)
                 THEN /\ m_bwpStates' = [m_bwpStates EXCEPT ![bwpId] = EccaDenied(st)]
                      /\ last' = [op |-> "ChannelAccessRequest", a |-> bwpId,
                                  b |-> 0, ret |-> "denied_ecca"]
                 ELSE /\ m_bwpStates' = [m_bwpStates EXCEPT ![bwpId] = Granted(st)]
                      /\ last' = [op |-> "ChannelAccessRequest", a |-> bwpId,
                                  b |-> 0, ret |-> "granted"]

\* a call of ChannelAccessRequest at the current time
ChannelAccessRequest(bwpId) ==
  /\ TotalAttempts(BwpIds) < MaxAttempts
  /\ RequestOutcome(bwpId)
  /\ UNCHANGED <<now, events, msTruncates, m_cwMin, m_cwMax, lbtAdded,
                 nArrivals, regVars, schedVars>>

\* delays, in ticks, after which a caller's event calls ChannelAccessRequest
RequestDelays == {0, 2}

\* the pending events of one kind for a sub-band
PendingFor(q, kind, bwpId) ==
  {k \in 1..Len(q) : q[k].kind = kind /\ q[k].a = bwpId}

\* the pending events of one kind
PendingKind(q, kind) == {k \in 1..Len(q) : q[k].kind = kind}

\* a caller schedules an event that will call ChannelAccessRequest (bwpId)
ScheduleRequest(bwpId, delay) ==
  /\ Len(events) < MaxQueued
  /\ TotalAttempts(BwpIds) + Cardinality(PendingKind(events, "request")) < MaxAttempts
  /\ events' = Schedule(events, delay, "request", bwpId, 0)
  /\ last' = [op |-> "ScheduleRequest", a |-> bwpId, b |-> delay, ret |-> "void"]
  /\ UNCHANGED <<now, msTruncates, lbtVars, regVars, schedVars>>

\* the simulator dispatches the caller's event: ChannelAccessRequest runs
DispatchRequest ==
  /\ events # <<>>
  /\ Head(events).kind = "request"
  /\ Head(events).time = now
  /\ RequestOutcome(Head(events).a)
  /\ events' = Tail(events)
  /\ UNCHANGED <<now, msTruncates, m_cwMin, m_cwMax, lbtAdded, nArrivals,
                 regVars, schedVars>>

\* AddBwp called at any time, for a sub-band registered or not
AddBwpCall(bwpId, wifiPoissonMean) ==
  /\ phase # "aborted"
  /\ Len(events) < MaxQueued
  /\ AddBwp(bwpId, wifiPoissonMean)

\* a change of the mean that starts the sub-band's state again
SetWifiInterferenceAnew(bwpId, poissonMean) ==
  /\ m_bwpStates' =
       IF m_bwpStates[bwpId] = NoState THEN m_bwpStates
       ELSE [m_bwpStates EXCEPT ![bwpId] = NewBwpState(bwpId, poissonMean)]
  /\ last' = [op |-> "SetWifiInterference", a |-> bwpId, b |-> poissonMean,
              ret |-> "void"]
  /\ UNCHANGED <<now, events, msTruncates, m_cwMin, m_cwMax, lbtAdded,
                 nArrivals, regVars, schedVars>>

SetWifiInterference(bwpId, poissonMean) ==
  /\ m_bwpStates' =
       IF m_bwpStates[bwpId] = NoState THEN m_bwpStates
       ELSE [m_bwpStates EXCEPT ![bwpId].wifiPoissonMean = poissonMean]
  /\ last' = [op |-> "SetWifiInterference", a |-> bwpId, b |-> poissonMean,
              ret |-> "void"]
  /\ UNCHANGED <<now, events, msTruncates, m_cwMin, m_cwMax, lbtAdded,
                 nArrivals, regVars, schedVars>>


----------------------------------------------------------------------------
(* NrUeBwpManager: the registry of sub-bands and terminals *)

DefaultBwpId == 0

\* m_bwpSwitchLatency, MilliSeconds (1), in ticks
BwpSwitchLatency == 2

\* at most this many events are pending when SwitchBwp is called from outside
MaxPending == 2

RegBwpIds == {0, 1, 2}
RegUeIds == {1, 2}
\* the ids SwitchBwp is called with: registered ones and ones never registered
SwitchUeIds == {1, 2, 3}
SwitchBwpIds == {0, 1, 2, 3}
RegNumRbs == {10}

\* what m_bwpMap[bwpId] creates for a key it does not hold
ZeroBwpInfo == [bwpId |-> 0, numRbs |-> 0, activeUes |-> 0]

BwpInfoOf(bwpMap, bwpId) ==
  IF bwpId \in DOMAIN bwpMap THEN bwpMap[bwpId] ELSE ZeroBwpInfo

MapPut(f, k, v) == [x \in DOMAIN f \cup {k} |-> IF x = k THEN v ELSE f[x]]

\* m_bwpMap[bwpId].activeUes++ and --, on a uint16_t
IncActive(bwpMap, bwpId) ==
  MapPut(bwpMap, bwpId,
         [BwpInfoOf(bwpMap, bwpId) EXCEPT !.activeUes = (@ + 1) % U16])

\* SwitchBwp without the decrement of the old sub-band
DecActiveNot(bwpMap, bwpId) == bwpMap

DecActive(bwpMap, bwpId) ==
  MapPut(bwpMap, bwpId,
         [BwpInfoOf(bwpMap, bwpId) EXCEPT !.activeUes = (@ + U16 - 1) % U16])

\* The registry and the event queue as one value r, so that a caller can
\* make several calls in a row: r = [bwpMap, ueMap, ev].
RegAddBwp(r, bwpId, numRbs) ==
  [r EXCEPT !.bwpMap = MapPut(r.bwpMap, bwpId,
                              [bwpId |-> bwpId, numRbs |-> numRbs, activeUes |-> 0])]

RegAddUe(r, ueId) ==
  IF ueId \notin DOMAIN r.ueMap
  THEN [r EXCEPT !.ueMap = MapPut(r.ueMap, ueId, DefaultBwpId),
                 !.bwpMap = IncActive(r.bwpMap, DefaultBwpId)]
  ELSE r

\* the moving branch without the call of Simulator::Schedule
SwitchMoveNoNotify(r, ueId, newBwpId) ==
  [bwpMap |-> IncActive(DecActive(r.bwpMap, r.ueMap[ueId]), newBwpId),
   ueMap |-> [r.ueMap EXCEPT ![ueId] = newBwpId],
   ev |-> r.ev]

\* the branch of SwitchBwp that moves the terminal
SwitchMove(r, ueId, newBwpId) ==
  [bwpMap |-> IncActive(DecActive(r.bwpMap, r.ueMap[ueId]), newBwpId),
   ueMap |-> [r.ueMap EXCEPT ![ueId] = newBwpId],
   ev |-> Schedule(r.ev, BwpSwitchLatency, "notify", ueId, newBwpId)]

\* the test of SwitchBwp without bwpIt != m_bwpMap.end ()
SwitchValidUeOnly(r, ueId, newBwpId) == ueId \in DOMAIN r.ueMap

SwitchValid(r, ueId, newBwpId) ==
  ueId \in DOMAIN r.ueMap /\ newBwpId \in DOMAIN r.bwpMap

RegSwitchBwp(r, ueId, newBwpId) ==
  IF SwitchValid(r, ueId, newBwpId)
  THEN IF r.ueMap[ueId] # newBwpId THEN SwitchMove(r, ueId, newBwpId) ELSE r
  ELSE r

Registry == [bwpMap |-> m_bwpMap, ueMap |-> m_ueMap, ev |-> events]

SetRegistry(r) ==
  /\ m_bwpMap' = r.bwpMap
  /\ m_ueMap' = r.ueMap
  /\ events' = r.ev

MgrAddBwp(bwpId, numRbs) ==
  /\ phase = "bwps"
  /\ SetRegistry(RegAddBwp(Registry, bwpId, numRbs))
  /\ last' = [op |-> "MgrAddBwp", a |-> bwpId, b |-> numRbs, ret |-> "void"]
  /\ UNCHANGED <<now, msTruncates, lbtVars, phase, schedVars>>

AddUe(ueId) ==
  /\ phase \in {"bwps", "ues"}
  /\ phase' = "ues"
  /\ SetRegistry(RegAddUe(Registry, ueId))
  /\ last' = [op |-> "AddUe", a |-> ueId, b |-> 0, ret |-> "void"]
  /\ UNCHANGED <<now, msTruncates, lbtVars, schedVars>>

SwitchBwp(ueId, newBwpId) ==
  /\ phase \in {"bwps", "ues", "run"}
  /\ phase' = "run"
  /\ Len(events) < MaxPending
  /\ SetRegistry(RegSwitchBwp(Registry, ueId, newBwpId))
  /\ last' = [op |-> "SwitchBwp", a |-> ueId, b |-> newBwpId,
              ret |-> IF SwitchValid(Registry, ueId, newBwpId) THEN "ok" ELSE "warn"]
  /\ UNCHANGED <<now, msTruncates, lbtVars, schedVars>>

MapRemove(f, k) == [x \in DOMAIN f \ {k} |-> f[x]]

\* the terminals mapped to the sub-band
UesOn(ueMap, bwpId) == {u \in DOMAIN ueMap : ueMap[u] = bwpId}

\* RemoveBwp: the sub-band's terminals go to the default sub-band, whose
\* count operator[] increments once per terminal, then the entry is erased
RegRemoveBwp(r, bwpId) ==
  IF bwpId \in DOMAIN r.bwpMap
  THEN LET moved == UesOn(r.ueMap, bwpId)
           counted ==
             IF moved = {} THEN r.bwpMap
             ELSE MapPut(r.bwpMap, DefaultBwpId,
                         [BwpInfoOf(r.bwpMap, DefaultBwpId) EXCEPT
                            !.activeUes = (@ + Cardinality(moved)) % U16])
       IN  [r EXCEPT
              !.ueMap = [u \in DOMAIN r.ueMap |->
                           IF u \in moved THEN DefaultBwpId ELSE r.ueMap[u]],
              !.bwpMap = MapRemove(counted, bwpId)]
  ELSE r

RegRemoveUe(r, ueId) ==
  IF ueId \in DOMAIN r.ueMap
  THEN [r EXCEPT !.bwpMap = DecActive(r.bwpMap, r.ueMap[ueId]),
                 !.ueMap = MapRemove(r.ueMap, ueId)]
  ELSE r

\* the registry's operations are called in any order while every count is at
\* most this far from zero, counting up or (after a wrap) down
MaxCount == 2

CountsNear(bwpMap) ==
  \A b \in DOMAIN bwpMap :
    bwpMap[b].activeUes <= MaxCount \/ bwpMap[b].activeUes >= U16 - MaxCount

\* the registry's operations called in any order while the simulation runs
AnyAddBwp(bwpId, numRbs) ==
  /\ phase \in {"any", "sched", "windows"}
  /\ CountsNear(m_bwpMap)
  /\ SetRegistry(RegAddBwp(Registry, bwpId, numRbs))
  /\ last' = [op |-> "MgrAddBwp", a |-> bwpId, b |-> numRbs, ret |-> "void"]
  /\ UNCHANGED <<now, msTruncates, lbtVars, phase, schedVars>>

RemoveBwp(bwpId) ==
  /\ phase \in {"any", "sched", "windows"}
  /\ CountsNear(m_bwpMap)
  /\ SetRegistry(RegRemoveBwp(Registry, bwpId))
  /\ last' = [op |-> "RemoveBwp", a |-> bwpId, b |-> 0, ret |-> "void"]
  /\ UNCHANGED <<now, msTruncates, lbtVars, phase, schedVars>>

AnyAddUe(ueId) ==
  /\ phase = "any"
  /\ CountsNear(m_bwpMap)
  /\ SetRegistry(RegAddUe(Registry, ueId))
  /\ last' = [op |-> "AddUe", a |-> ueId, b |-> 0, ret |-> "void"]
  /\ UNCHANGED <<now, msTruncates, lbtVars, phase, schedVars>>

RemoveUe(ueId) ==
  /\ phase = "any"
  /\ CountsNear(m_bwpMap)
  /\ SetRegistry(RegRemoveUe(Registry, ueId))
  /\ last' = [op |-> "RemoveUe", a |-> ueId, b |-> 0, ret |-> "void"]
  /\ UNCHANGED <<now, msTruncates, lbtVars, phase, schedVars>>

AnySwitchBwp(ueId, newBwpId) ==
  /\ phase = "any"
  /\ CountsNear(m_bwpMap)
  /\ now < MaxTime
  /\ Len(events) < MaxPending
  /\ SetRegistry(RegSwitchBwp(Registry, ueId, newBwpId))
  /\ last' = [op |-> "SwitchBwp", a |-> ueId, b |-> newBwpId,
              ret |-> IF SwitchValid(Registry, ueId, newBwpId) THEN "ok" ELSE "warn"]
  /\ UNCHANGED <<now, msTruncates, lbtVars, phase, schedVars>>

\* the scheduled call of NotifyPhyLayer (ueId, bwpId), which does nothing more
NotifyPhyLayer ==
  /\ phase # "aborted"
  /\ events # <<>>
  /\ Head(events).kind = "notify"
  /\ Head(events).time = now
  /\ events' = Tail(events)
  /\ last' = [op |-> "NotifyPhyLayer", a |-> Head(events).a, b |-> Head(events).b,
              ret |-> "void"]
  /\ UNCHANGED <<now, msTruncates, lbtVars, regVars, schedVars>>

----------------------------------------------------------------------------
(* NrUeAiScheduler: the decision window and the LCA policy *)

\* a decision window every m_timeWindowSize slots
TimeWindowSize == 500

\* at most this many decision windows run
MaxWindows == 2

\* the PHY's GetAvgBitsPerRb samples of one window, for sub-bands 0, 1 and 2
PhySamples ==
  {<<<<20, 1>>, <<20, 1>>, <<20, 1>>>>,
   <<<<20, 1>>, <<40, 1>>, <<20, 1>>>>,
   <<<<40, 1>>, <<20, 1>>, <<120, 1>>>>}

\* the PHY's per-terminal answers, which no policy modelled here reads
PhyUe == [queueSize |-> 0, holDelay |-> <<0, 1>>, throughput |-> <<0, 1>>,
          avgBitsPerRb |-> <<0, 1>>]

GetFailureRate(bwpId) ==
  IF bwpId \in DOMAIN m_bwpStates /\ m_bwpStates[bwpId] # NoState
  THEN m_bwpStates[bwpId].lbtFailureRate ELSE <<0, 1>>

GetWifiOccupancy(bwpId) ==
  IF bwpId \in DOMAIN m_bwpStates /\ m_bwpStates[bwpId] # NoState
  THEN m_bwpStates[bwpId].wifiOccupancy ELSE <<0, 1>>

GetContentionWindow(bwpId) ==
  IF bwpId \in DOMAIN m_bwpStates /\ m_bwpStates[bwpId] # NoState
  THEN m_bwpStates[bwpId].currentCw ELSE m_cwMin

\* calls of the three getters, which are const and look the id up with find
CallGetFailureRate(bwpId) ==
  /\ last' = [op |-> "GetFailureRate", a |-> bwpId, b |-> 0,
              ret |-> GetFailureRate(bwpId)]
  /\ UNCHANGED <<now, events, msTruncates, lbtVars, regVars, schedVars>>

CallGetWifiOccupancy(bwpId) ==
  /\ last' = [op |-> "GetWifiOccupancy", a |-> bwpId, b |-> 0,
              ret |-> GetWifiOccupancy(bwpId)]
  /\ UNCHANGED <<now, events, msTruncates, lbtVars, regVars, schedVars>>

\* the getter reading the state with operator[], which creates what is absent
GetContentionWindowByIndex(bwpId) ==
  /\ m_bwpStates' = [m_bwpStates EXCEPT ![bwpId] = StateOf(bwpId)]
  /\ last' = [op |-> "GetContentionWindow", a |-> bwpId, b |-> 0,
              ret |-> StateOf(bwpId).currentCw]
  /\ UNCHANGED <<now, events, msTruncates, m_cwMin, m_cwMax, lbtAdded, nArrivals,
                 regVars, schedVars>>

CallGetContentionWindow(bwpId) ==
  /\ last' = [op |-> "GetContentionWindow", a |-> bwpId, b |-> 0,
              ret |-> GetContentionWindow(bwpId)]
  /\ UNCHANGED <<now, events, msTruncates, lbtVars, regVars, schedVars>>

GetNumBwps(bwpMap) == Cardinality(DOMAIN bwpMap) % U16

GetNumRbs(bwpMap, bwpId) ==
  IF bwpId \in DOMAIN bwpMap THEN bwpMap[bwpId].numRbs ELSE 0

InitialBwpStats(i) ==
  [bwpId |-> i, lbtFailureRate |-> Rat(1 + 2 * i, 10),
   wifiOccupancy |-> Rat(2 + 2 * i, 10), contentionWindow |-> 8,
   avgBitsPerRb |-> <<20, 1>>, totalThroughput |-> <<0, 1>>, totalCollisions |-> 0]

DoInitialize ==
  /\ phase = "sched"
  /\ phase' = "windows"
  /\ m_bwpStats' = [i \in 1..GetNumBwps(m_bwpMap) |-> InitialBwpStats(i - 1)]
  /\ events' = Schedule(events, 0, "window", 0, 0)
  /\ last' = [op |-> "DoInitialize", a |-> 0, b |-> 0, ret |-> "void"]
  /\ UNCHANGED <<now, msTruncates, lbtVars, m_bwpMap, m_ueMap, m_ueStats,
                 m_maxScheduledUes, m_currentWindow, m_algorithmType, rlVars, phy>>

CollectBwpStats(stats, bits) ==
  [stats EXCEPT
     !.lbtFailureRate = GetFailureRate(stats.bwpId),
     !.wifiOccupancy = GetWifiOccupancy(stats.bwpId),
     !.contentionWindow = GetContentionWindow(stats.bwpId),
     !.avgBitsPerRb = RatAdd(RatMul(<<9, 10>>, @), RatMul(<<1, 10>>, bits[stats.bwpId]))]

RECURSIVE SortedSeq(_)
SortedSeq(S) ==
  IF S = {} THEN <<>>
  ELSE LET m == CHOOSE x \in S : \A y \in S : x <= y
       IN  <<m>> \o SortedSeq(S \ {m})

\* one record per entry of the registry's terminal map, in the map's order
CollectUeStats(ueMap) ==
  LET ids == SortedSeq(DOMAIN ueMap)
  IN  [k \in 1..Len(ids) |->
         [ueId |-> ids[k], currentBwp |-> ueMap[ids[k]],
          queueSize |-> PhyUe.queueSize, holDelay |-> PhyUe.holDelay,
          throughput |-> PhyUe.throughput, avgBitsPerRb |-> PhyUe.avgBitsPerRb]]

ResetWindowStatistics(bwpStats) ==
  [i \in 1..Len(bwpStats) |->
     [bwpStats[i] EXCEPT !.totalThroughput = <<0, 1>>, !.totalCollisions = 0]]

\* (1 - F_n) * C_n * N_n^RB
Metric(stats, bwpMap) ==
  RatMul(RatMul(RatSub(<<1, 1>>, stats.lbtFailureRate), stats.avgBitsPerRb),
         RatInt(GetNumRbs(bwpMap, stats.bwpId)))

\* the comparison of the loop with >= for >
BetterOrEqual(metric, maxMetric) == RatLeq(maxMetric, metric)

\* whether the loop over m_bwpStats replaces the best sub-band found so far
Better(metric, maxMetric) == RatLess(maxMetric, metric)

RECURSIVE BestFrom(_, _, _, _, _)
BestFrom(bwpStats, bwpMap, i, bestBwp, maxMetric) ==
  IF i > Len(bwpStats) THEN bestBwp
  ELSE IF Better(Metric(bwpStats[i], bwpMap), maxMetric)
       THEN BestFrom(bwpStats, bwpMap, i + 1, bwpStats[i].bwpId,
                     Metric(bwpStats[i], bwpMap))
       ELSE BestFrom(bwpStats, bwpMap, i + 1, bestBwp, maxMetric)

BestBwp(bwpStats, bwpMap) == BestFrom(bwpStats, bwpMap, 1, 0, <<0, 1>>)

RECURSIVE RatSum(_, _)
RatSum(f, i) == IF i > Len(f) THEN <<0, 1>> ELSE RatAdd(f[i], RatSum(f, i + 1))

\* truncation in place of std::round
RoundDown(x) == x[1] \div x[2]

\* std::round of a rational that is not negative
Round(x) ==
  LET whole == x[1] \div x[2]
      rest == x[1] % x[2]
  IN  IF rest >= x[2] - rest THEN whole + 1 ELSE whole

\* uesPerBwp[i] for a positive total metric
UesPerBwp(count, metric, totalMetric) ==
  Round(RatMul(RatInt(count), RatDiv(metric, totalMetric))) % U16

\* the vectors uesPerBwp the branch for |U| > k can compute: with a zero total
\* the quotient is not a number and its conversion to uint16_t is undefined
UesPerBwpOutcomes(bwpStats, bwpMap, count) ==
  LET bwpMetrics == [i \in 1..Len(bwpStats) |-> Metric(bwpStats[i], bwpMap)]
      totalMetric == RatSum(bwpMetrics, 1)
  IN  IF totalMetric[1] = 0
      THEN [1..Len(bwpStats) -> {0, 1, U16 - 1}]
      ELSE {[i \in 1..Len(bwpStats) |-> UesPerBwp(count, bwpMetrics[i], totalMetric)]}

\* the distribution loop with i <= uesPerBwp[bwpIdx] for i < uesPerBwp[bwpIdx]
TakeOneMore(quota, count, ueIdx) == Min(quota + 1, count - ueIdx)

\* how many terminals the distribution loop gives the sub-band at bwpIdx when
\* ueIdx terminals are already placed
Take(quota, count, ueIdx) == Min(quota, count - ueIdx)

\* the SwitchBwp calls of the distribution loop from bwpIdx on
RECURSIVE DistributeUes(_, _, _, _, _)
DistributeUes(bwpStats, ueStats, uesPerBwp, bwpIdx, ueIdx) ==
  IF bwpIdx > Len(bwpStats) THEN <<>>
  ELSE LET k == Take(uesPerBwp[bwpIdx], Len(ueStats), ueIdx)
       IN  [j \in 1..k |-> <<ueStats[ueIdx + j].ueId, bwpStats[bwpIdx].bwpId>>]
           \o DistributeUes(bwpStats, ueStats, uesPerBwp, bwpIdx + 1, ueIdx + k)

\* the SwitchBwp calls AssignBwpsLca makes, in order
AssignBwpsLca(bwpStats, ueStats, bwpMap, uesPerBwp) ==
  IF Len(ueStats) <= m_maxScheduledUes
  THEN [k \in 1..Len(ueStats) |-> <<ueStats[k].ueId, BestBwp(bwpStats, bwpMap)>>]
  ELSE DistributeUes(bwpStats, ueStats, uesPerBwp, 1, 0)

RECURSIVE ApplyCalls(_, _)
ApplyCalls(r, calls) ==
  IF calls = <<>> THEN r
  ELSE ApplyCalls(RegSwitchBwp(r, Head(calls)[1], Head(calls)[2]), Tail(calls))

\* GymBwpRlEnv: the attributes Alpha, Beta and MaxThroughput at their defaults
Alpha == 1
Beta == 1
MaxThroughput == 1000

\* the double that 0.0 / 0 gives, which every sum and product with it gives too
NaN == <<0, 0>>

\* the sum of the field over the snapshot's records from k on
RECURSIVE SumOf(_, _, _)
SumOf(ueStats, field, k) ==
  IF k > Len(ueStats) THEN <<0, 1>>
  ELSE RatAdd(ueStats[k][field], SumOf(ueStats, field, k + 1))

\* avgHolDelay /= ueStats.size (): the sum of no terminals is 0.0, and 0.0 / 0
\* is the double NaN
AvgHolDelay(ueStats) ==
  IF Len(ueStats) = 0 THEN NaN
  ELSE RatDiv(SumOf(ueStats, "holDelay", 1), RatInt(Len(ueStats)))

\* -(alpha * avgHolDelay + beta * (T_max - totalThroughput))
GetReward(ueStats) ==
  IF AvgHolDelay(ueStats) = NaN THEN NaN
  ELSE RatNeg(RatAdd(RatMul(RatInt(Alpha), AvgHolDelay(ueStats)),
                     RatMul(RatInt(Beta),
                            RatSub(RatInt(MaxThroughput),
                                   SumOf(ueStats, "throughput", 1)))))

\* GetReward is called while fewer than this many rewards of the least value,
\* -beta * T_max, are accumulated
MaxRewards == 2

\* a call of GetReward: the reward of the scheduler's terminal snapshot is
\* added to m_totalReward and returned
CallGetReward ==
  /\ m_totalReward # NaN =>
       RatLess(RatInt(-(Beta * MaxThroughput * MaxRewards)), m_totalReward)
  /\ m_totalReward' =
       IF m_totalReward = NaN \/ GetReward(m_ueStats) = NaN THEN NaN
       ELSE RatAdd(m_totalReward, GetReward(m_ueStats))
  /\ last' = [op |-> "GetReward", a |-> 0, b |-> 0, ret |-> GetReward(m_ueStats)]
  /\ UNCHANGED <<now, events, msTruncates, lbtVars, regVars, m_bwpStats, m_ueStats,
                 m_maxScheduledUes, m_currentWindow, m_algorithmType, m_rlEnv,
                 m_epsilon, m_epsilonMin, m_epsilonDecay, phy>>

SnapshotIds == {m_bwpStats[i].bwpId : i \in 1..Len(m_bwpStats)}

RunDecisionWindow ==
  /\ events # <<>>
  /\ Head(events).kind = "window"
  /\ Head(events).time = now
  /\ m_currentWindow < MaxWindows
  /\ m_algorithmType = "LCA"
  /\ \E sample \in PhySamples :
       LET bits == [id \in SnapshotIds |-> sample[id + 1]]
           bwpStats == [i \in 1..Len(m_bwpStats) |-> CollectBwpStats(m_bwpStats[i], bits)]
           ueStats == CollectUeStats(m_ueMap)
       IN  \E uesPerBwp \in UesPerBwpOutcomes(bwpStats, m_bwpMap, Len(ueStats)) :
             LET calls == AssignBwpsLca(bwpStats, ueStats, m_bwpMap, uesPerBwp)
                 r == ApplyCalls([bwpMap |-> m_bwpMap, ueMap |-> m_ueMap,
                                  ev |-> Tail(events)], calls)
             IN  /\ m_bwpMap' = r.bwpMap
                 /\ m_ueMap' = r.ueMap
                 /\ m_bwpStats' = ResetWindowStatistics(bwpStats)
                 /\ m_ueStats' = ueStats
                 /\ m_currentWindow' = m_currentWindow + 1
                 /\ events' = Schedule(r.ev, MilliSecondsHalf(TimeWindowSize),
                                       "window", 0, 0)
                 /\ phy' = bits
                 /\ last' = [op |-> "RunDecisionWindow", a |-> 0, b |-> 0,
                             ret |-> "void", calls |-> calls]
  /\ UNCHANGED <<now, msTruncates, lbtVars, phase, m_maxScheduledUes, m_algorithmType,
                 rlVars>>

\* rand () / (double)RAND_MAX, which lies in [0, 1]
RandDraws == {<<0, 1>>, <<1, 2>>, <<1, 1>>}

\* whether the draw selects the exploration branch
Explores(draw) == RatLess(draw, m_epsilon)

\* GetActionSpace ()->Sample () of the discrete space of numBwps actions
Sample(numBwps) == 0..(numBwps - 1)

\* GymBwpRlEnv::GetOptimalAction: the heuristic of the LCA policy
GetOptimalAction(bwpStats, bwpMap) == BestBwp(bwpStats, bwpMap)

\* the SwitchBwp calls of GymBwpRlEnv::ExecuteActions for the action value
ExecuteActions(ueStats, value, numBwps) ==
  [k \in 1..Len(ueStats) |-> <<ueStats[k].ueId, value % numBwps>>]

\* the test of m_rlEnv that always finds an environment
HasRlEnvAlways(env) == TRUE

\* if (!m_rlEnv) at the head of AssignBwpsRla
HasRlEnv(env) == env

RatMax(x, y) == IF RatLess(x, y) THEN y ELSE x

\* the update of m_epsilon without the floor
UpdateEpsilonNoFloor(epsilon) == RatMul(epsilon, m_epsilonDecay)

\* the update of m_epsilon applied twice
UpdateEpsilonTwice(epsilon) ==
  RatMax(RatMul(RatMax(RatMul(epsilon, m_epsilonDecay), m_epsilonMin),
                m_epsilonDecay), m_epsilonMin)

\* m_epsilon = std::max (m_epsilon * m_epsilonDecay, m_epsilonMin)
UpdateEpsilon(epsilon) == RatMax(RatMul(epsilon, m_epsilonDecay), m_epsilonMin)

\* the decision window under RLA with an RL environment attached
RunDecisionWindowRla ==
  /\ events # <<>>
  /\ Head(events).kind = "window"
  /\ Head(events).time = now
  /\ m_currentWindow < MaxWindows
  /\ m_algorithmType = "RLA"
  /\ HasRlEnv(m_rlEnv)
  /\ GetNumBwps(m_bwpMap) > 0
  /\ \E sample \in PhySamples, draw \in RandDraws :
       LET bits == [id \in SnapshotIds |-> sample[id + 1]]
           bwpStats == [i \in 1..Len(m_bwpStats) |-> CollectBwpStats(m_bwpStats[i], bits)]
           ueStats == CollectUeStats(m_ueMap)
           numBwps == GetNumBwps(m_bwpMap)
       IN  \E value \in (IF Explores(draw) THEN Sample(numBwps)
                          ELSE {GetOptimalAction(bwpStats, m_bwpMap)}) :
             LET calls == ExecuteActions(ueStats, value, numBwps)
                 r == ApplyCalls([bwpMap |-> m_bwpMap, ueMap |-> m_ueMap,
                                  ev |-> Tail(events)], calls)
             IN  /\ m_bwpMap' = r.bwpMap
                 /\ m_ueMap' = r.ueMap
                 /\ m_epsilon' = UpdateEpsilon(m_epsilon)
                 /\ m_bwpStats' = ResetWindowStatistics(bwpStats)
                 /\ m_ueStats' = ueStats
                 /\ m_currentWindow' = m_currentWindow + 1
                 /\ events' = Schedule(r.ev, MilliSecondsHalf(TimeWindowSize),
                                       "window", 0, 0)
                 /\ phy' = bits
                 /\ last' = [op |-> "RunDecisionWindow", a |-> 0, b |-> 0,
                             ret |-> IF Explores(draw) THEN "explore" ELSE "exploit",
                             calls |-> calls]
  /\ UNCHANGED <<now, msTruncates, lbtVars, phase, m_maxScheduledUes, m_algorithmType,
                 m_rlEnv, m_epsilonMin, m_epsilonDecay, m_totalReward>>

\* the decision window under RLA with no RL environment: NS_FATAL_ERROR ends
\* the program after CollectWindowStatistics
RunDecisionWindowFatal ==
  /\ events # <<>>
  /\ Head(events).kind = "window"
  /\ Head(events).time = now
  /\ m_currentWindow < MaxWindows
  /\ m_algorithmType = "RLA"
  /\ ~HasRlEnv(m_rlEnv)
  /\ \E sample \in PhySamples :
       LET bits == [id \in SnapshotIds |-> sample[id + 1]]
       IN  /\ m_bwpStats' = [i \in 1..Len(m_bwpStats) |->
                               CollectBwpStats(m_bwpStats[i], bits)]
           /\ phy' = bits
  /\ m_ueStats' = CollectUeStats(m_ueMap)
  /\ events' = Tail(events)
  /\ phase' = "aborted"
  /\ last' = [op |-> "RunDecisionWindow", a |-> 0, b |-> 0, ret |-> "fatal",
              calls |-> <<>>]
  /\ UNCHANGED <<now, msTruncates, lbtVars, m_bwpMap, m_ueMap, m_maxScheduledUes,
                 m_currentWindow, m_algorithmType, rlVars>>

\* Simulator::Run moves the clock to the next pending event
Advance ==
  /\ phase # "aborted"
  /\ events # <<>>
  /\ Head(events).time > now
  /\ now' = Head(events).time
  /\ last' = [op |-> "Advance", a |-> 0, b |-> 0, ret |-> "void"]
  /\ UNCHANGED <<events, msTruncates, lbtVars, regVars, schedVars>>

\* the clock moves on once every event due now has run
Tick ==
  /\ now < MaxTime
  /\ events # <<>> => Head(events).time > now
  /\ now' = now + 1
  /\ last' = [op |-> "Tick", a |-> 0, b |-> 0, ret |-> "void"]
  /\ UNCHANGED <<events, msTruncates, lbtVars, regVars, schedVars>>

NoLast == [op |-> "none", a |-> 0, b |-> 0, ret |-> "void"]

----------------------------------------------------------------------------
(* Specifications *)

LbtIdle ==
  /\ msTruncates \in BOOLEAN
  /\ m_cwMin \in CwMinValues
  /\ m_cwMax \in CwMaxValues
  /\ m_cwMin <= m_cwMax
  /\ m_bwpStates = [b \in BwpIds |-> NoState]
  /\ lbtAdded = {}
  /\ nArrivals = 0

RegEmpty ==
  /\ m_bwpMap = <<>>
  /\ m_ueMap = <<>>

SchedIdle ==
  /\ m_bwpStats = <<>>
  /\ m_ueStats = <<>>
  /\ m_maxScheduledUes = 16
  /\ m_currentWindow = 0
  /\ m_algorithmType = "LCA"
  /\ m_rlEnv = FALSE
  /\ m_epsilon = <<1, 1>>
  /\ m_epsilonMin = <<1, 100>>
  /\ m_epsilonDecay = <<199, 200>>
  /\ m_totalReward = <<0, 1>>
  /\ phy = <<>>

\* The LBT controller: sub-bands registered at set-up, then access requests,
\* interference arrivals and the clock in any order.
Init ==
  /\ now = 0
  /\ events = <<>>
  /\ LbtIdle
  /\ RegEmpty
  /\ phase = "off"
  /\ SchedIdle
  /\ last = NoLast

Next ==
  \/ \E bwpId \in BwpIds, mean \in WifiMeans :
       /\ now = 0
       /\ m_bwpStates[bwpId] = NoState
       /\ AddBwp(bwpId, mean)
  \/ \E bwpId \in BwpIds : HandleWifiInterference(bwpId)
  \/ \E bwpId \in BwpIds : ChannelAccessRequest(bwpId)
  \/ Tick

Spec == Init /\ [][Next]_vars

\* The registry: sub-bands are added, then terminals, then SwitchBwp is called
\* with any ids while the clock runs and the notifications fire.
InitReg ==
  /\ now = 0
  /\ events = <<>>
  /\ msTruncates = TRUE
  /\ m_cwMin = 8
  /\ m_cwMax = 128
  /\ m_bwpStates = [b \in BwpIds |-> NoState]
  /\ lbtAdded = {}
  /\ nArrivals = 0
  /\ RegEmpty
  /\ phase = "bwps"
  /\ SchedIdle
  /\ last = NoLast

NextReg ==
  \/ \E bwpId \in RegBwpIds, numRbs \in RegNumRbs : MgrAddBwp(bwpId, numRbs)
  \/ \E ueId \in RegUeIds : AddUe(ueId)
  \/ \E ueId \in SwitchUeIds, newBwpId \in SwitchBwpIds : SwitchBwp(ueId, newBwpId)
  \/ NotifyPhyLayer
  \/ Tick

SpecReg == InitReg /\ [][NextReg]_vars

\* The registry with all its operations, called in any order.
AllBwpIds == {0, 1}
AllUeIds == {1, 2}

InitRegAll ==
  /\ now = 0
  /\ events = <<>>
  /\ msTruncates = TRUE
  /\ m_cwMin = 8
  /\ m_cwMax = 128
  /\ m_bwpStates = [b \in BwpIds |-> NoState]
  /\ lbtAdded = {}
  /\ nArrivals = 0
  /\ RegEmpty
  /\ phase = "any"
  /\ SchedIdle
  /\ last = NoLast

NextRegAll ==
  \/ \E bwpId \in AllBwpIds, numRbs \in RegNumRbs : AnyAddBwp(bwpId, numRbs)
  \/ \E bwpId \in AllBwpIds : RemoveBwp(bwpId)
  \/ \E ueId \in AllUeIds : AnyAddUe(ueId)
  \/ \E ueId \in AllUeIds : RemoveUe(ueId)
  \/ \E ueId \in AllUeIds, newBwpId \in AllBwpIds : AnySwitchBwp(ueId, newBwpId)
  \/ NotifyPhyLayer
  \/ Advance

SpecRegAll == InitRegAll /\ [][NextRegAll]_vars

\* The scheduler under LCA.  The registry holds sub-bands 0..n-1 and terminals
\* 1..count, as AddBwp and AddUe leave them; the LBT controller reports a
\* failure rate per sub-band; the PHY answers each window with new samples.
RbProfiles == {<<10, 10>>, <<10, 5>>, <<0, 0>>, <<1, 2, 3>>, <<1, 3, 3>>, <<3, 2, 1>>}

\* how many requests the LBT controller has denied so far on sub-bands 0, 1, 2
DenialCounts == {<<0, 0, 0>>, <<1, 0, 0>>, <<0, 1, 0>>, <<1, 1, 2>>}

\* the sub-band's state after that many requests, each denied in the backoff
RECURSIVE Denied(_, _)
Denied(st, count) == IF count = 0 THEN st ELSE EccaDenied(Denied(st, count - 1))

UeCounts == {3, 5, 12}
MaxScheduledValues == {4, 16}

RECURSIVE AddBwps(_, _, _)
AddBwps(r, rbs, i) ==
  IF i > Len(rbs) THEN r ELSE AddBwps(RegAddBwp(r, i - 1, rbs[i]), rbs, i + 1)

RECURSIVE AddUes(_, _)
AddUes(r, count) ==
  IF count = 0 THEN r ELSE RegAddUe(AddUes(r, count - 1), count)

InitLca ==
  /\ now = 0
  /\ events = <<>>
  /\ msTruncates = TRUE
  /\ m_cwMin = 8
  /\ m_cwMax = 128
  /\ nArrivals = 0
  /\ phase = "sched"
  /\ m_bwpStats = <<>>
  /\ m_ueStats = <<>>
  /\ m_maxScheduledUes \in MaxScheduledValues
  /\ m_currentWindow = 0
  /\ m_algorithmType = "LCA"
  /\ m_rlEnv = FALSE
  /\ m_epsilon = <<1, 1>>
  /\ m_epsilonMin = <<1, 100>>
  /\ m_epsilonDecay = <<199, 200>>
  /\ m_totalReward = <<0, 1>>
  /\ phy = <<>>
  /\ last = NoLast
  /\ \E rbs \in RbProfiles, count \in UeCounts :
       LET r == AddUes(AddBwps([bwpMap |-> <<>>, ueMap |-> <<>>, ev |-> <<>>], rbs, 1),
                       count)
       IN  /\ m_bwpMap = r.bwpMap
           /\ m_ueMap = r.ueMap
           /\ lbtAdded = DOMAIN r.bwpMap
           /\ \E denials \in DenialCounts :
                m_bwpStates = [b \in DOMAIN r.bwpMap |->
                                 Denied(NewBwpState(b, 1000), denials[b + 1])]

NextLca ==
  \/ DoInitialize
  \/ RunDecisionWindow
  \/ NotifyPhyLayer
  \/ Advance

SpecLca == InitLca /\ [][NextLca]_vars

\* The LCA scheduler over a registry that changes: sub-bands 0 and 1 and two
\* terminals are registered at the start; sub-bands are added and removed
\* before and after the scheduler is initialized.
InitSnap ==
  /\ now = 0
  /\ events = <<>>
  /\ msTruncates = TRUE
  /\ m_cwMin = 8
  /\ m_cwMax = 128
  /\ nArrivals = 0
  /\ phase = "sched"
  /\ SchedIdle
  /\ last = NoLast
  /\ LET r == AddUes(AddBwps([bwpMap |-> <<>>, ueMap |-> <<>>, ev |-> <<>>],
                             <<10, 5>>, 1), 2)
     IN  /\ m_bwpMap = r.bwpMap
         /\ m_ueMap = r.ueMap
         /\ lbtAdded = DOMAIN r.bwpMap
         /\ m_bwpStates = [b \in DOMAIN r.bwpMap |-> NewBwpState(b, 1000)]

NextSnap ==
  \/ \E bwpId \in {1, 2} : AnyAddBwp(bwpId, 10)
  \/ \E bwpId \in {1, 2} : RemoveBwp(bwpId)
  \/ DoInitialize
  \/ RunDecisionWindow
  \/ NotifyPhyLayer
  \/ Advance

SpecSnap == InitSnap /\ [][NextSnap]_vars

\* The RL environment's reward next to the scheduler: GetReward is called at
\* any time, before the first decision window too.  The two terminals are on
\* the sub-band every window finds best, so no window switches any.
NextRew ==
  \/ CallGetReward
  \/ DoInitialize
  \/ RunDecisionWindow
  \/ Advance

SpecRew == InitSnap /\ [][NextRew]_vars

\* The LBT controller driven by the simulator's events: sub-bands are
\* registered with AddBwp at any time, also ones already registered; callers
\* schedule their requests; events of one timestamp run in the order in which
\* they were scheduled.
EvBwpIds == {0}

InitEv ==
  /\ now = 0
  /\ events = <<>>
  /\ msTruncates = FALSE
  /\ m_cwMin = 1
  /\ m_cwMax = 2
  /\ m_bwpStates = [b \in BwpIds |-> NoState]
  /\ lbtAdded = {}
  /\ nArrivals = 0
  /\ RegEmpty
  /\ phase = "off"
  /\ SchedIdle
  /\ last = NoLast

NextEv ==
  \/ \E bwpId \in EvBwpIds, mean \in WifiMeans : AddBwpCall(bwpId, mean)
  \/ \E bwpId \in EvBwpIds, delay \in RequestDelays : ScheduleRequest(bwpId, delay)
  \/ DispatchRequest
  \/ \E bwpId \in EvBwpIds : HandleWifiInterference(bwpId)
  \/ Advance

SpecEv == InitEv /\ [][NextEv]_vars

\* a call of SetWifiInterference that changes the sub-band's mean
ChangeWifiInterference ==
  \E bwpId \in EvBwpIds, mean \in WifiMeans :
    /\ mean # StateOf(bwpId).wifiPoissonMean
    /\ SetWifiInterference(bwpId, mean)

\* The interference arrivals alone: registrations, changes of the mean, and
\* the arrivals the simulator dispatches.
NextArr ==
  \/ \E bwpId \in EvBwpIds, mean \in WifiMeans : AddBwpCall(bwpId, mean)
  \/ ChangeWifiInterference
  \/ \E bwpId \in EvBwpIds : HandleWifiInterference(bwpId)
  \/ Advance

SpecArr == InitEv /\ [][NextArr]_vars

\* The controller disposed of while the simulation runs: registrations,
\* DoDispose, and the arrivals the simulator dispatches.
NextDisp ==
  \/ \E bwpId \in EvBwpIds, mean \in WifiMeans : AddBwpCall(bwpId, mean)
  \/ DoDispose
  \/ \E bwpId \in EvBwpIds : HandleWifiInterference(bwpId)
  \/ Advance

SpecDisp == InitEv /\ [][NextDisp]_vars

\* an interference arrival is at the head of the queue at the current time
ArrivalDue ==
  /\ events # <<>>
  /\ Head(events).kind = "wifi"
  /\ Head(events).time = now
  /\ nArrivals < MaxArrivals

\* the simulator dispatches every pending event: weak fairness of each
\* dispatch, that of the arrival written out (an arrival that stays due is
\* eventually handled)
SpecArrFair ==
  /\ SpecArr
  /\ WF_vars(Advance)
  /\ ([]<>~ArrivalDue \/ []<><<nArrivals' = nArrivals + 1>>_vars)

\* The LBT controller next to the scheduler under LCA: sub-band 0 is registered
\* at set-up in both, the scheduler is initialized when the simulation starts,
\* and requests, changes of the mean, arrivals and decision windows interleave.
InitCnt ==
  /\ now = 0
  /\ msTruncates = FALSE
  /\ m_cwMin = 2
  /\ m_cwMax = 4
  /\ m_bwpStates = [b \in BwpIds |-> IF b = 0 THEN NewBwpState(0, 1000) ELSE NoState]
  /\ events = ScheduleWifiInterference(<<>>, NewBwpState(0, 1000), 0)
  /\ lbtAdded = {0}
  /\ nArrivals = 0
  /\ phase = "sched"
  /\ SchedIdle
  /\ last = NoLast
  /\ LET r == AddUes(AddBwps([bwpMap |-> <<>>, ueMap |-> <<>>, ev |-> <<>>],
                             <<10>>, 1), 0)
     IN  /\ m_bwpMap = r.bwpMap
         /\ m_ueMap = r.ueMap

\* the simulation starts: the scheduler is initialized at time 0
Start == now = 0 /\ DoInitialize

NextCnt ==
  \/ \E bwpId \in EvBwpIds : ChannelAccessRequest(bwpId)
  \/ ChangeWifiInterference
  \/ \E bwpId \in EvBwpIds : HandleWifiInterference(bwpId)
  \/ Start
  \/ RunDecisionWindow
  \/ Advance

SpecCnt == InitCnt /\ [][NextCnt]_vars

\* The LBT controller as the readers of its estimates see it: sub-band 0 is
\* registered and sub-band 1 never is; the getters are called for either id
\* between the requests and the arrivals of sub-band 0.
NextGet ==
  \/ \E bwpId \in EvBwpIds : ChannelAccessRequest(bwpId)
  \/ \E bwpId \in BwpIds : CallGetFailureRate(bwpId)
  \/ \E bwpId \in BwpIds : CallGetWifiOccupancy(bwpId)
  \/ \E bwpId \in BwpIds : CallGetContentionWindow(bwpId)
  \/ \E bwpId \in EvBwpIds : HandleWifiInterference(bwpId)
  \/ Advance

SpecGet == InitCnt /\ [][NextGet]_vars

\* The same controller with the mean of either id set to any value at any time.
NextSet ==
  \/ \E bwpId \in EvBwpIds : ChannelAccessRequest(bwpId)
  \/ \E bwpId \in BwpIds, mean \in WifiMeans : SetWifiInterference(bwpId, mean)
  \/ \E bwpId \in EvBwpIds : HandleWifiInterference(bwpId)
  \/ Advance

SpecSet == InitCnt /\ [][NextSet]_vars

\* configured values of the attributes Epsilon, EpsilonMin and EpsilonDecay;
\* the first of each is the default, and no attribute has a range
EpsilonValues == {<<1, 1>>, <<1, 8>>, <<1, 200>>}
EpsilonMinValues == {<<1, 100>>, <<1, 4>>}
EpsilonDecayValues == {<<199, 200>>, <<1, 2>>, <<3, 2>>}

\* sub-band registrations of the scheduler under either policy
RlaRbProfiles == {<<10, 5>>, <<1, 3, 3>>}

\* the scheduler after construction and configuration, before DoInitialize:
\* AlgorithmType is LCA or RLA and SetGymEnv has attached an environment or not
InitRla ==
  /\ now = 0
  /\ events = <<>>
  /\ msTruncates = TRUE
  /\ m_cwMin = 8
  /\ m_cwMax = 128
  /\ nArrivals = 0
  /\ phase = "sched"
  /\ m_bwpStats = <<>>
  /\ m_ueStats = <<>>
  /\ m_maxScheduledUes = 16
  /\ m_currentWindow = 0
  /\ m_algorithmType \in {"LCA", "RLA"}
  /\ m_rlEnv \in BOOLEAN
  /\ m_epsilon \in EpsilonValues
  /\ m_epsilonMin \in EpsilonMinValues
  /\ m_epsilonDecay \in EpsilonDecayValues
  /\ m_totalReward = <<0, 1>>
  /\ phy = <<>>
  /\ last = NoLast
  /\ \E rbs \in RlaRbProfiles :
       LET r == AddUes(AddBwps([bwpMap |-> <<>>, ueMap |-> <<>>, ev |-> <<>>], rbs, 1), 3)
       IN  /\ m_bwpMap = r.bwpMap
           /\ m_ueMap = r.ueMap
           /\ lbtAdded = DOMAIN r.bwpMap
           /\ m_bwpStates = [b \in DOMAIN r.bwpMap |-> NewBwpState(b, 1000)]

NextRla ==
  \/ DoInitialize
  \/ RunDecisionWindow
  \/ RunDecisionWindowRla
  \/ RunDecisionWindowFatal
  \/ NotifyPhyLayer
  \/ Advance

SpecRla == InitRla /\ [][NextRla]_vars

\* a decision-window event is at the head of the queue at the current time
WindowDue ==
  /\ events # <<>>
  /\ Head(events).kind = "window"
  /\ Head(events).time = now
  /\ m_currentWindow < MaxWindows

\* the step dispatches the decision-window event at the head of the queue
WindowStep ==
  /\ events # <<>>
  /\ Head(events).kind = "window"
  /\ Head(events).time = now
  /\ events' # events

\* the simulator dispatches every pending event: weak fairness of each
\* dispatch, that of the window event written out (a window that stays due is
\* eventually dispatched)
SpecRlaFair ==
  /\ SpecRla
  /\ WF_vars(DoInitialize)
  /\ WF_vars(Advance)
  /\ WF_vars(NotifyPhyLayer)
  /\ ([]<>~WindowDue \/ []<><<WindowStep>>_vars)

----------------------------------------------------------------------------
(* The LBT controller's properties, under Spec *)

\* the step is a call ChannelAccessRequest (last'.a)
RequestStep == last'.op = "ChannelAccessRequest"

\* the sub-band's state once the step is done
StateAfter(bwpId) ==
  IF m_bwpStates'[bwpId] = NoState THEN ZeroState ELSE m_bwpStates'[bwpId]

\* C1: a sub-band registered with AddBwp always has cwMin <= currentCw <= cwMax,
\* and right after a granted request its currentCw is cwMin.
C1_CwBounds ==
  /\ \A id \in lbtAdded :
       /\ m_bwpStates[id] # NoState
       /\ m_cwMin <= m_bwpStates[id].currentCw
       /\ m_bwpStates[id].currentCw <= m_cwMax
  /\ (last.op = "ChannelAccessRequest" /\ last.ret = "granted")
       => StateOf(last.a).currentCw = m_cwMin

\* a registered sub-band is granted access after its window had been doubled
C1_Witness ==
  /\ last.op = "ChannelAccessRequest"
  /\ last.ret = "granted"
  /\ last.a \in lbtAdded
  /\ StateOf(last.a).totalFailures >= 1
  /\ StateOf(last.a).channelBusyUntil = 0
  /\ StateOf(last.a).currentCw = m_cwMin
  /\ m_cwMin < m_cwMax

\* C2: a request on a registered sub-band that passes the ICCA check (now >= channelBusyUntil) ends its
\* backoff at now + backoff >= channelBusyUntil, outside every busy interval the
\* controller knows, so it is granted whatever backoff is drawn; in particular
\* when the last busy interval ended strictly before now.
C2_GrantedOutsideBusy ==
  [][(RequestStep /\ last'.a \in lbtAdded
         /\ ~(now < StateOf(last'.a).channelBusyUntil))
       => last'.ret = "granted"]_vars

\* C3, as claimed: every denied request, at the ICCA check or at the backoff,
\* sets currentCw to min(2 * currentCw, cwMax), and every granted one to cwMin.
C3_EveryDenialDoubles ==
  [][RequestStep =>
       StateAfter(last'.a).currentCw =
         IF last'.ret = "granted" THEN m_cwMin
         ELSE Min(2 * StateOf(last'.a).currentCw, m_cwMax)]_vars

\* C3, amended: a request denied at the backoff sets currentCw to
\* min(2 * currentCw, cwMax), one denied at the ICCA check leaves currentCw as
\* it was, and a granted one sets it to cwMin.
C3_BackoffDenialDoubles ==
  [][RequestStep =>
       StateAfter(last'.a).currentCw =
         CASE last'.ret = "granted" -> m_cwMin
           [] last'.ret = "denied_ecca" -> Min(2 * StateOf(last'.a).currentCw, m_cwMax)
           [] last'.ret = "denied_icca" -> StateOf(last'.a).currentCw]_vars

\* a request is denied at the ICCA check while the window is below cwMax
C3_Witness ==
  /\ last.op = "ChannelAccessRequest"
  /\ last.ret = "denied_icca"
  /\ last.a \in lbtAdded
  /\ StateOf(last.a).currentCw < m_cwMax
  /\ now < StateOf(last.a).channelBusyUntil

\* C4: a request made while now < channelBusyUntil is denied at once: both
\* counters grow by one, lbtFailureRate is recomputed from them, and
\* channelBusyUntil and channelOccupiedUntil stay as they were.
C4_IccaDenial ==
  [][(RequestStep /\ now < StateOf(last'.a).channelBusyUntil) =>
       LET old == StateOf(last'.a)
           new == StateAfter(last'.a)
       IN  /\ last'.ret = "denied_icca"
           /\ new.totalAttempts = old.totalAttempts + 1
           /\ new.totalFailures = old.totalFailures + 1
           /\ new.lbtFailureRate[1] * 10 * old.lbtFailureRate[2] * new.totalAttempts
                = new.lbtFailureRate[2]
                    * (9 * old.lbtFailureRate[1] * new.totalAttempts
                       + old.lbtFailureRate[2] * new.totalFailures)
           /\ new.channelBusyUntil = old.channelBusyUntil
           /\ new.channelOccupiedUntil = old.channelOccupiedUntil
           /\ new.currentCw = old.currentCw]_vars

\* a request has been denied at the ICCA check after an earlier attempt
C4_Witness ==
  /\ last.op = "ChannelAccessRequest"
  /\ last.ret = "denied_icca"
  /\ StateOf(last.a).totalAttempts >= 2
  /\ StateOf(last.a).totalFailures < StateOf(last.a).totalAttempts

\* C5: after every denied request, at either check,
\* lbtFailureRate' = 0.9 * lbtFailureRate + 0.1 * totalFailures' / totalAttempts'.
C5_FailureRateSmoothing ==
  [][(RequestStep /\ last'.ret \in {"denied_icca", "denied_ecca"}) =>
       LET old == StateOf(last'.a)
           new == StateAfter(last'.a)
       IN  /\ new.totalAttempts > 0
           /\ new.lbtFailureRate[2] > 0
           /\ new.lbtFailureRate[1] * 10 * old.lbtFailureRate[2] * new.totalAttempts
                = new.lbtFailureRate[2]
                    * (9 * old.lbtFailureRate[1] * new.totalAttempts
                       + old.lbtFailureRate[2] * new.totalFailures)]_vars

\* a request is denied at the backoff when not every earlier attempt had failed
C5_Witness ==
  /\ last.op = "ChannelAccessRequest"
  /\ last.ret = "denied_ecca"
  /\ StateOf(last.a).totalAttempts >= 2
  /\ StateOf(last.a).totalFailures < StateOf(last.a).totalAttempts
  /\ StateOf(last.a).lbtFailureRate[1] > 0

----------------------------------------------------------------------------
(* The registry's properties, under SpecReg *)

RECURSIVE SumActive(_, _)
SumActive(bwpMap, ids) ==
  IF ids = {} THEN 0
  ELSE LET id == CHOOSE x \in ids : TRUE
       IN  bwpMap[id].activeUes + SumActive(bwpMap, ids \ {id})

\* the step is a call SwitchBwp (last'.a, last'.b)
SwitchStep == last'.op = "SwitchBwp"

\* the step moves a registered terminal to another registered sub-band
MovingSwitch ==
  /\ SwitchStep
  /\ last'.a \in DOMAIN m_ueMap
  /\ last'.b \in DOMAIN m_bwpMap
  /\ m_ueMap[last'.a] # last'.b

\* q with its i-th element taken out
Without(q, i) == [k \in 1..(Len(q) - 1) |-> IF k < i THEN q[k] ELSE q[k + 1]]

\* C6: with the sub-bands added, then the terminals, the activeUes counts sum to
\* the number of registered terminals whatever SwitchBwp calls follow.
C6_Conservation ==
  SumActive(m_bwpMap, DOMAIN m_bwpMap) = Cardinality(DOMAIN m_ueMap)

\* one of two terminals has been moved off the default sub-band
C6_Witness ==
  /\ last.op = "SwitchBwp"
  /\ Cardinality(DOMAIN m_ueMap) = 2
  /\ last.a \in DOMAIN m_ueMap
  /\ m_ueMap[last.a] = last.b
  /\ last.b # DefaultBwpId
  /\ m_bwpMap[last.b].activeUes = 1
  /\ m_bwpMap[DefaultBwpId].activeUes = 1

\* C7: a SwitchBwp (ue, new) with a registered terminal and a registered
\* sub-band other than its current one takes one from the old sub-band's
\* activeUes, adds one to the new one's, records new for the terminal and
\* schedules exactly one notification (ue, new) for now + bwpSwitchLatency;
\* a notification fires at the time it was scheduled for.
C7_SwitchMoves ==
  [][/\ MovingSwitch =>
          LET old == m_ueMap[last'.a]
          IN  /\ DOMAIN m_bwpMap' = DOMAIN m_bwpMap
              /\ DOMAIN m_ueMap' = DOMAIN m_ueMap
              /\ \A b \in DOMAIN m_bwpMap :
                   /\ m_bwpMap'[b].numRbs = m_bwpMap[b].numRbs
                   /\ m_bwpMap'[b].activeUes =
                        m_bwpMap[b].activeUes + (IF b = last'.b THEN 1 ELSE 0)
                                              - (IF b = old THEN 1 ELSE 0)
              /\ \A u \in DOMAIN m_ueMap :
                   m_ueMap'[u] = IF u = last'.a THEN last'.b ELSE m_ueMap[u]
              /\ Len(events') = Len(events) + 1
              /\ \E i \in 1..Len(events') :
                   /\ events'[i] = [time |-> now + BwpSwitchLatency, kind |-> "notify",
                                    a |-> last'.a, b |-> last'.b]
                   /\ Without(events', i) = events
     /\ last'.op = "NotifyPhyLayer" =>
          /\ Head(events) = [time |-> now, kind |-> "notify",
                             a |-> last'.a, b |-> last'.b]
          /\ events' = Tail(events)
          /\ now' = now]_vars

\* the notification of a move off the default sub-band has fired
C7_Witness ==
  /\ last.op = "NotifyPhyLayer"
  /\ last.b # DefaultBwpId
  /\ last.a \in DOMAIN m_ueMap
  /\ m_ueMap[last.a] = last.b
  /\ now >= BwpSwitchLatency
  /\ events = <<>>

\* C8: SwitchBwp changes neither map nor any count and schedules nothing when
\* the new sub-band is the terminal's current one, when the terminal id is
\* unknown, or when the sub-band id is unknown.
C8_SwitchNoOp ==
  [][(/\ SwitchStep
      /\ \/ last'.a \notin DOMAIN m_ueMap
         \/ last'.b \notin DOMAIN m_bwpMap
         \/ m_ueMap[last'.a] = last'.b)
       => /\ m_ueMap' = m_ueMap
          /\ m_bwpMap' = m_bwpMap
          /\ events' = events]_vars

\* a registered terminal was to be switched to a sub-band that is not registered
C8_Witness ==
  /\ last.op = "SwitchBwp"
  /\ last.ret = "warn"
  /\ last.a \in DOMAIN m_ueMap
  /\ last.b \notin DOMAIN m_bwpMap
  /\ m_bwpMap[m_ueMap[last.a]].activeUes >= 1

----------------------------------------------------------------------------
(* The LCA policy's properties, under SpecLca *)

\* the decision window has just run
WindowDone == last.op = "RunDecisionWindow"

\* the metric (1 - failureRate) * avgBitsPerRb * numRbs of the i-th record of
\* the snapshot
MetricOf(i) ==
  RatMul(RatMul(RatSub(RatInt(1), m_bwpStats[i].lbtFailureRate),
                m_bwpStats[i].avgBitsPerRb),
         RatInt(m_bwpMap[m_bwpStats[i].bwpId].numRbs))

MetricGeq(i, j) == RatLeq(MetricOf(j), MetricOf(i))

\* the i-th record has the maximal metric, and the lowest id of those that have
IsBest(i) ==
  \A j \in 1..Len(m_bwpStats) :
    /\ MetricGeq(i, j)
    /\ MetricGeq(j, i) => m_bwpStats[i].bwpId <= m_bwpStats[j].bwpId

\* C9: when the snapshot has at most maxScheduledUes terminals, the window
\* leaves every terminal on the sub-band of maximal metric, the lowest id among
\* equals; metrics 180 and 100 with 5 terminals and maxScheduledUes = 16 leave
\* all 5 on sub-band 0.
C9_SingleBest ==
  (WindowDone /\ Len(m_ueStats) <= m_maxScheduledUes) =>
     /\ \E i \in 1..Len(m_bwpStats) :
          /\ IsBest(i)
          /\ \A k \in 1..Len(m_ueStats) :
               m_ueMap[m_ueStats[k].ueId] = m_bwpStats[i].bwpId
     /\ (/\ Len(m_bwpStats) = 2
         /\ m_bwpStats[1].bwpId = 0
         /\ MetricOf(1) = RatInt(180)
         /\ MetricOf(2) = RatInt(100)
         /\ Len(m_ueStats) = 5
         /\ m_maxScheduledUes = 16)
        => \A k \in 1..5 : m_ueMap[m_ueStats[k].ueId] = 0

\* the window moved the terminals to a sub-band that ties for the best metric
\* with a later one
C9_Witness ==
  /\ WindowDone
  /\ Len(m_ueStats) <= m_maxScheduledUes
  /\ \E i, j \in 1..Len(m_bwpStats) :
       /\ i < j
       /\ IsBest(i)
       /\ MetricGeq(j, i)
       /\ \A k \in 1..Len(m_ueStats) :
            /\ m_ueStats[k].currentBwp # m_bwpStats[i].bwpId
            /\ m_ueMap[m_ueStats[k].ueId] = m_bwpStats[i].bwpId

RECURSIVE MetricSum(_)
MetricSum(i) ==
  IF i > Len(m_bwpStats) THEN RatInt(0) ELSE RatAdd(MetricOf(i), MetricSum(i + 1))

\* terminalCount * metric_i / sum of metrics
Share(i) == RatMul(RatInt(Len(m_ueStats)), RatDiv(MetricOf(i), MetricSum(1)))

\* round(terminalCount * metric_i / sum of metrics): the whole number nearest
\* to the quotient, the larger one of two equally near, which for a quotient
\* that is not negative is the integer part of the quotient plus one half
Quota(i) ==
  LET s == RatAdd(Share(i), <<1, 2>>)
  IN  s[1] \div s[2]

RECURSIVE QuotaSum(_)
QuotaSum(i) == IF i = 0 THEN 0 ELSE Quota(i) + QuotaSum(i - 1)

\* how many SwitchBwp calls of the window name the i-th sub-band
Given(i) ==
  Cardinality({k \in 1..Len(last.calls) : last.calls[k][2] = m_bwpStats[i].bwpId})

Proportional ==
  /\ WindowDone
  /\ Len(m_ueStats) > m_maxScheduledUes
  /\ MetricSum(1)[1] > 0

\* three sub-bands with metrics in the proportion 10 : 20 : 30, of which
\* [10, 20, 30] is one, and 12 terminals; the quotas read the metrics only
\* through the quotients metric_i / sum
ExampleSplit ==
  /\ Len(m_bwpStats) = 3
  /\ MetricOf(2) = RatMul(RatInt(2), MetricOf(1))
  /\ MetricOf(3) = RatMul(RatInt(3), MetricOf(1))
  /\ Len(m_ueStats) = 12

\* C10, as claimed: with more terminals than maxScheduledUes, sub-band i is
\* given round(terminalCount * metric_i / sum) terminals, taken consecutively
\* from the terminal list; metrics [10, 20, 30] and 12 terminals give [2, 4, 6].
C10_QuotaGiven ==
  Proportional =>
     /\ \A i \in 1..Len(m_bwpStats) : Given(i) = Quota(i)
     /\ \A k \in 1..Len(last.calls) : last.calls[k][1] = m_ueStats[k].ueId
     /\ ExampleSplit => <<Given(1), Given(2), Given(3)>> = <<2, 4, 6>>

\* C10, amended: with more terminals than maxScheduledUes and a positive metric
\* sum, sub-band i is given round(terminalCount * metric_i / sum) terminals or,
\* if fewer are left after the earlier sub-bands, those that are left; they are
\* taken consecutively from the terminal list, each ends the window on its
\* sub-band, and terminals the quotas do not reach stay where they were;
\* metrics [10, 20, 30] and 12 terminals give [2, 4, 6].
C10_QuotaUntilExhausted ==
  Proportional =>
     /\ \A i \in 1..Len(m_bwpStats) :
          Given(i) = Min(Quota(i), Max(0, Len(m_ueStats) - QuotaSum(i - 1)))
     /\ Len(last.calls) = Min(Len(m_ueStats), QuotaSum(Len(m_bwpStats)))
     /\ \A k \in 1..Len(last.calls) :
          /\ last.calls[k][1] = m_ueStats[k].ueId
          /\ \E i \in 1..Len(m_bwpStats) :
               /\ QuotaSum(i - 1) < k
               /\ k <= QuotaSum(i)
               /\ last.calls[k][2] = m_bwpStats[i].bwpId
          /\ m_ueMap[m_ueStats[k].ueId] = last.calls[k][2]
     /\ \A k \in (Len(last.calls) + 1)..Len(m_ueStats) :
          m_ueMap[m_ueStats[k].ueId] = m_ueStats[k].currentBwp
     /\ ExampleSplit => <<Given(1), Given(2), Given(3)>> = <<2, 4, 6>>

\* the quotas sum to more than the terminal count, and the last sub-band is
\* given fewer terminals than its quota
C10_Witness ==
  /\ Proportional
  /\ QuotaSum(Len(m_bwpStats)) > Len(m_ueStats)
  /\ Given(Len(m_bwpStats)) < Quota(Len(m_bwpStats))
  /\ Given(Len(m_bwpStats)) > 0

RECURSIVE GivenSum(_)
GivenSum(i) == IF i = 0 THEN 0 ELSE Given(i) + GivenSum(i - 1)

\* no terminal is named by two SwitchBwp calls of the window
NoTerminalTwice ==
  \A j, k \in 1..Len(last.calls) : j # k => last.calls[j][1] # last.calls[k][1]

\* the rounded quotas do not sum to the terminal count
QuotasOff == Proportional /\ QuotaSum(Len(m_bwpStats)) # Len(m_ueStats)

\* C11, as claimed: when the quotas do not sum to the terminal count, every
\* terminal is still assigned in the window, none twice, and the numbers of
\* terminals assigned per sub-band sum to the terminal count.
C11_RemainderAbsorbed ==
  QuotasOff =>
     /\ NoTerminalTwice
     /\ \A k \in 1..Len(m_ueStats) :
          \E j \in 1..Len(last.calls) : last.calls[j][1] = m_ueStats[k].ueId
     /\ GivenSum(Len(m_bwpStats)) = Len(m_ueStats)

\* C11, amended: the remainder is not reconciled.  No terminal is assigned
\* twice.  When the quotas sum to more than the terminal count the assignment
\* stops once the list is exhausted, every terminal is assigned and the
\* per-sub-band numbers sum to the terminal count.  When they sum to less, only
\* the first (sum of quotas) terminals of the list are assigned, the per-sub-band
\* numbers sum to the sum of the quotas, and each remaining terminal gets no
\* SwitchBwp call and keeps the sub-band it had.
C11_RemainderNotReconciled ==
  QuotasOff =>
     /\ NoTerminalTwice
     /\ GivenSum(Len(m_bwpStats)) = Len(last.calls)
     /\ QuotaSum(Len(m_bwpStats)) > Len(m_ueStats) =>
          /\ Len(last.calls) = Len(m_ueStats)
          /\ \A k \in 1..Len(m_ueStats) :
               \E j \in 1..Len(last.calls) : last.calls[j][1] = m_ueStats[k].ueId
     /\ QuotaSum(Len(m_bwpStats)) < Len(m_ueStats) =>
          /\ Len(last.calls) = QuotaSum(Len(m_bwpStats))
          /\ \A k \in (QuotaSum(Len(m_bwpStats)) + 1)..Len(m_ueStats) :
               /\ \A j \in 1..Len(last.calls) : last.calls[j][1] # m_ueStats[k].ueId
               /\ m_ueMap[m_ueStats[k].ueId] = m_ueStats[k].currentBwp

\* the quotas sum to less than the terminal count and the last terminal of the
\* list is left without a SwitchBwp call
C11_Witness ==
  /\ Proportional
  /\ QuotaSum(Len(m_bwpStats)) < Len(m_ueStats)
  /\ Len(last.calls) > 0
  /\ Len(last.calls) < Len(m_ueStats)
  /\ \A j \in 1..Len(last.calls) :
       last.calls[j][1] # m_ueStats[Len(m_ueStats)].ueId

----------------------------------------------------------------------------
(* The exploration schedule and the window cycle, under SpecRla *)

\* the step is a window in which AssignBwpsRla ran one of its two branches
RlaWindowStep == WindowStep /\ last'.ret \in {"explore", "exploit"}

\* the state follows a window in which AssignBwpsRla ran one of its branches
RlaWindowDone == last.op = "RunDecisionWindow" /\ last.ret \in {"explore", "exploit"}

\* C12 as stated: under RLA epsilon never increases from one window to the next
\* and is never below epsilonMin.
C12_EpsilonMonotone ==
  [][RlaWindowStep =>
       /\ RatLeq(m_epsilon', m_epsilon)
       /\ RatLeq(m_epsilonMin, m_epsilon')]_vars

\* C12: after every RLA window epsilon is at least epsilonMin, and the window
\* does not increase epsilon when EpsilonDecay is at most 1 and epsilon was at
\* least epsilonMin before it (a configured Epsilon below EpsilonMin is raised
\* to epsilonMin by the first window, a decay above 1 makes epsilon grow).
C12_EpsilonMonotoneWhenConfigured ==
  [][RlaWindowStep =>
       /\ RatLeq(m_epsilonMin, m_epsilon')
       /\ (RatLeq(m_epsilonMin, m_epsilon) /\ RatLeq(m_epsilonDecay, <<1, 1>>)
             => RatLeq(m_epsilon', m_epsilon))
       /\ (RatLess(m_epsilon, m_epsilonMin) => m_epsilon' = m_epsilonMin)
       /\ (RatLess(<<1, 1>>, m_epsilonDecay) => RatLess(m_epsilon, m_epsilon'))]_vars

\* two RLA windows have run and epsilon has decayed below its configured value
\* while staying above the floor
C12_Witness ==
  /\ RlaWindowDone
  /\ m_currentWindow = 2
  /\ RatLess(m_epsilonDecay, <<1, 1>>)
  /\ RatLess(m_epsilon, <<1, 1>>)
  /\ RatLess(m_epsilonMin, m_epsilon)

\* C13: every RLA window, whether it explored or exploited, updates epsilon
\* once to max(epsilon * epsilonDecay, epsilonMin); an LCA window and every
\* other step leave epsilon unchanged.
C13_EpsilonUpdatedOnce ==
  [][IF RlaWindowStep
     THEN m_epsilon' = RatMax(RatMul(m_epsilon, m_epsilonDecay), m_epsilonMin)
     ELSE m_epsilon' = m_epsilon]_vars

\* an exploitation window has brought epsilon down to the floor
C13_Witness ==
  /\ RlaWindowDone
  /\ last.ret = "exploit"
  /\ m_epsilon = m_epsilonMin
  /\ RatLess(m_epsilonDecay, <<1, 1>>)
  /\ m_epsilonMin = <<1, 4>>

\* C14: a window under RLA with no RL environment stops with the fatal error:
\* it issues no SwitchBwp, does not run the LCA policy, changes no terminal's
\* sub-band, and nothing runs after it.
C14_FatalWithoutEnv ==
  [][/\ phase # "aborted"
     /\ (WindowStep /\ m_algorithmType = "RLA" /\ ~m_rlEnv =>
           /\ last'.op = "RunDecisionWindow"
           /\ last'.ret = "fatal"
           /\ last'.calls = <<>>
           /\ phase' = "aborted"
           /\ m_ueMap' = m_ueMap
           /\ m_bwpMap' = m_bwpMap
           /\ events' = Tail(events)
           /\ m_currentWindow' = m_currentWindow)]_vars

\* the first window of an RLA scheduler without environment has stopped the run
C14_Witness ==
  /\ phase = "aborted"
  /\ last.ret = "fatal"
  /\ m_algorithmType = "RLA"
  /\ ~m_rlEnv
  /\ m_currentWindow = 0
  /\ m_ueMap # <<>>

\* the pending decision-window events
WindowEvents(q) == {k \in 1..Len(q) : q[k].kind = "window"}

\* the policy can run: LCA, or RLA with an RL environment attached
PolicyRuns == m_algorithmType = "LCA" \/ m_rlEnv

\* the step is a decision window: statistics collected, the policy selected by
\* m_algorithmType run, the window counters reset, the window counted and one
\* next window scheduled after the window duration
WindowCycle ==
  /\ last'.op = "RunDecisionWindow"
  /\ (m_algorithmType = "LCA" => last'.ret = "void")
  /\ (m_algorithmType = "RLA" => last'.ret \in {"explore", "exploit"})
  /\ m_ueStats' = CollectUeStats(m_ueMap)
  /\ \A i \in 1..Len(m_bwpStats') :
       /\ m_bwpStats'[i].totalThroughput = <<0, 1>>
       /\ m_bwpStats'[i].totalCollisions = 0
       /\ m_bwpStats'[i].lbtFailureRate = GetFailureRate(m_bwpStats[i].bwpId)
  /\ m_currentWindow' = m_currentWindow + 1
  /\ \E k \in 1..Len(events') :
       /\ WindowEvents(events') = {k}
       /\ events'[k].time = now + TimeWindowSize
  /\ now' = now

\* C15 as stated: after initialization there is always exactly one pending
\* decision-window event.
C15_AlwaysOnePendingWindow ==
  phase # "sched" => Cardinality(WindowEvents(events)) = 1

\* C15: when the policy can run (LCA, or RLA with an environment), every window
\* is one uninterrupted cycle collect, assign with the selected policy, reset,
\* schedule one next window; m_currentWindow changes only by counting a
\* window; one window event is pending after initialization; and each window
\* is followed by the next.  Under RLA without environment the first window
\* stops the run and no window event is pending afterwards.
C15_WindowCycle ==
  /\ [][(WindowStep /\ PolicyRuns => WindowCycle)
        /\ (~WindowStep => m_currentWindow' = m_currentWindow)]_vars
  /\ [](phase = "windows" => Cardinality(WindowEvents(events)) = 1)
  /\ [](phase = "aborted" => ~PolicyRuns /\ WindowEvents(events) = {})
  /\ \A k \in 0..(MaxWindows - 1) :
       (PolicyRuns /\ phase = "windows" /\ m_currentWindow = k)
         ~> (m_currentWindow = k + 1)

\* the second window has run under RLA and the third is pending
C15_Witness ==
  /\ m_currentWindow = 2
  /\ last.op = "RunDecisionWindow"
  /\ m_algorithmType = "RLA"
  /\ Cardinality(WindowEvents(events)) = 1
  /\ events[Len(events)].kind = "window"
  /\ events[Len(events)].time = 2 * TimeWindowSize

----------------------------------------------------------------------------
(* The interference arrivals, under SpecArrFair *)

\* the step handles an interference arrival of the sub-band
ArrivalStep(bwpId) ==
  /\ nArrivals' = nArrivals + 1
  /\ last'.op = "HandleWifiInterference"
  /\ last'.a = bwpId

\* the queue q without its k-th event
WithoutEvent(q, k) == [i \in 1..(Len(q) - 1) |-> IF i < k THEN q[i] ELSE q[i + 1]]

----------------------------------------------------------------------------
(* The order of events and the registrations, under SpecEv *)

\* the step dispatches the caller's event at the head of the queue, which
\* calls ChannelAccessRequest
RequestDispatched ==
  /\ events # <<>>
  /\ Head(events).kind = "request"
  /\ Head(events).time = now
  /\ events' = Tail(events)

\* C17: when a request for a sub-band runs, every interference arrival of that
\* sub-band with the same or an earlier timestamp has been applied, whatever
\* the order in which the events were scheduled: none is still pending.
C17_ArrivalAppliedFirst ==
  [][RequestDispatched =>
       \A k \in PendingFor(events, "wifi", Head(events).a) :
         events[k].time > now]_vars

\* C18: after AddBwp (id, mean) the sub-band's state is fresh (currentCw =
\* cwMin, no attempts, no failures, both rates zero) and exactly one
\* interference arrival is pending for id, also when id was registered
\* before; so no sub-band ever has more than one pending arrival.
C18_OnePendingArrival ==
  /\ \A bwpId \in EvBwpIds :
       Cardinality(PendingFor(events, "wifi", bwpId)) <= 1
  /\ last.op = "AddBwp" =>
       /\ m_bwpStates[last.a] # NoState
       /\ m_bwpStates[last.a].currentCw = m_cwMin
       /\ m_bwpStates[last.a].totalAttempts = 0
       /\ m_bwpStates[last.a].totalFailures = 0
       /\ m_bwpStates[last.a].lbtFailureRate = <<0, 1>>
       /\ m_bwpStates[last.a].wifiOccupancy = <<0, 1>>
       /\ Cardinality(PendingFor(events, "wifi", last.a)) = 1

----------------------------------------------------------------------------
(* The attempt counters, under SpecCnt *)

\* C19: across access requests, interference arrivals, changes of the mean
\* and decision windows, totalAttempts and totalFailures of a registered
\* sub-band never decrease: a request adds one attempt, a denied request one
\* failure as well, and no other step changes them; and totalFailures <=
\* totalAttempts in every state.
C19_CountersMonotone ==
  /\ [](\A bwpId \in lbtAdded :
          /\ 0 <= m_bwpStates[bwpId].totalFailures
          /\ m_bwpStates[bwpId].totalFailures <= m_bwpStates[bwpId].totalAttempts)
  /\ [][\A bwpId \in lbtAdded :
          LET before == m_bwpStates[bwpId]
              after == m_bwpStates'[bwpId]
          IN  /\ bwpId \in lbtAdded'
              /\ after.totalAttempts >= before.totalAttempts
              /\ after.totalFailures >= before.totalFailures
              /\ (after.totalAttempts # before.totalAttempts
                    => /\ m_bwpStates' # m_bwpStates
                       /\ last'.op = "ChannelAccessRequest"
                       /\ last'.a = bwpId
                       /\ after.totalAttempts = before.totalAttempts + 1)
              /\ (after.totalFailures # before.totalFailures
                    => /\ after.totalFailures = before.totalFailures + 1
                       /\ after.totalAttempts = before.totalAttempts + 1
                       /\ last'.ret \in {"denied_icca", "denied_ecca"})]_vars

\* a decision window has just collected the failure rate of a sub-band whose
\* mean was changed and which had one request denied and one granted
C19_Witness ==
  /\ last.op = "RunDecisionWindow"
  /\ m_currentWindow = 1
  /\ Len(m_bwpStats) = 1
  /\ m_bwpStats[1].lbtFailureRate # <<0, 1>>
  /\ StateOf(0).wifiPoissonMean = 500
  /\ StateOf(0).totalAttempts = 2
  /\ StateOf(0).totalFailures = 1

----------------------------------------------------------------------------
(* The occupancy estimate, under Spec *)

\* C20: wifiOccupancy of every registered sub-band stays within [0, 1] after
\* any sequence of interference arrivals.
C20_OccupancyInUnitInterval ==
  \A bwpId \in lbtAdded :
    /\ m_bwpStates[bwpId].wifiOccupancy # Infinity
    /\ RatLeq(<<0, 1>>, m_bwpStates[bwpId].wifiOccupancy)
    /\ RatLeq(m_bwpStates[bwpId].wifiOccupancy, <<1, 1>>)

----------------------------------------------------------------------------
(* The failure rate and the read operations, under Spec *)

\* C21: lbtFailureRate of every registered sub-band stays within [0, 1] after
\* any sequence of granted and denied requests.
C21_FailureRateInUnitInterval ==
  \A bwpId \in lbtAdded :
    /\ RatLeq(<<0, 1>>, m_bwpStates[bwpId].lbtFailureRate)
    /\ RatLeq(m_bwpStates[bwpId].lbtFailureRate, <<1, 1>>)

\* a registered sub-band has just been granted a request after two denied ones
C21_Witness ==
  /\ last.op = "ChannelAccessRequest"
  /\ last.ret = "granted"
  /\ last.a \in lbtAdded
  /\ StateOf(last.a).totalAttempts = 3
  /\ StateOf(last.a).totalFailures = 2
  /\ StateOf(last.a).lbtFailureRate = <<19, 100>>

-----------------------------------------------------------------------------
(* C28: the registry's counts against its terminal mapping *)

\* C28: after every sequence of AddBwp, RemoveBwp, AddUe, RemoveUe and
\* SwitchBwp, each registered sub-band's activeUes is the number of terminals
\* mapped to it (so it never wraps below zero), and every terminal is mapped
\* to a registered sub-band.
C28_CountsMatchMapping ==
  /\ \A bwpId \in DOMAIN m_bwpMap :
       m_bwpMap[bwpId].activeUes = Cardinality(UesOn(m_ueMap, bwpId))
  /\ \A ueId \in DOMAIN m_ueMap : m_ueMap[ueId] \in DOMAIN m_bwpMap

-----------------------------------------------------------------------------
(* C22: the window's snapshot against the registry *)

\* C22: the snapshot a decision window collects has exactly one per-sub-band
\* record for each sub-band the registry holds at that moment, and exactly one
\* per-terminal record for each terminal of the registry, with currentBwp the
\* sub-band the registry maps the terminal to at that moment.
C22_SnapshotMatchesRegistry ==
  [][WindowStep =>
       /\ Len(m_bwpStats') = Cardinality(DOMAIN m_bwpMap)
       /\ \A bwpId \in DOMAIN m_bwpMap :
            \E i \in 1..Len(m_bwpStats') : m_bwpStats'[i].bwpId = bwpId
       /\ Len(m_ueStats') = Cardinality(DOMAIN m_ueMap)
       /\ \A ueId \in DOMAIN m_ueMap :
            \E k \in 1..Len(m_ueStats') :
              /\ m_ueStats'[k].ueId = ueId
              /\ m_ueStats'[k].currentBwp = m_ueMap[ueId]]_vars

-----------------------------------------------------------------------------
(* The getters, under SpecGet *)

\* the step is a call of one of the three getters for the id
GetterStep(bwpId) ==
  /\ last'.op \in {"GetFailureRate", "GetWifiOccupancy", "GetContentionWindow"}
  /\ last'.a = bwpId

-----------------------------------------------------------------------------
(* SetWifiInterference, under SpecSet *)

\* the step is a call SetWifiInterference (bwpId, mean)
SetMeanStep(bwpId, mean) ==
  /\ last'.op = "SetWifiInterference"
  /\ last'.a = bwpId
  /\ last'.b = mean

\* C24: SetWifiInterference (id, mean) changes only the arrival rate of the
\* sub-band: its counters, both estimates, the contention window and
\* channelBusyUntil stay as they are, and so does the arrival already pending;
\* no other step changes the rate, so the next arrival scheduled after the call
\* is 1/mean after the arrival that schedules it; for an id without state the
\* call changes nothing and creates no state.
C24_OnlyTheRateChanges ==
  [][\A bwpId \in BwpIds :
       /\ \A mean \in WifiMeans :
            SetMeanStep(bwpId, mean) =>
              /\ UNCHANGED <<now, events, m_cwMin, m_cwMax, lbtAdded, nArrivals>>
              /\ \A other \in BwpIds \ {bwpId} : m_bwpStates'[other] = m_bwpStates[other]
              /\ IF m_bwpStates[bwpId] = NoState
                 THEN m_bwpStates'[bwpId] = NoState
                 ELSE m_bwpStates'[bwpId] =
                        [m_bwpStates[bwpId] EXCEPT !.wifiPoissonMean = mean]
       /\ (/\ m_bwpStates[bwpId] # NoState
           /\ m_bwpStates'[bwpId].wifiPoissonMean # m_bwpStates[bwpId].wifiPoissonMean)
            => last'.op = "SetWifiInterference" /\ last'.a = bwpId
       /\ ArrivalStep(bwpId) =>
            \E k \in PendingFor(events', "wifi", bwpId) :
              /\ events'[k].time =
                   now + TicksPerSecond \div m_bwpStates[bwpId].wifiPoissonMean
              /\ WithoutEvent(events', k) = Tail(events)]_vars

\* the mean of sub-band 0, registered with 1000, has been set to 500; the
\* arrival at 1 ms has scheduled the next one 2 ms later; counters and window
\* are those of the one request, which was denied
C24_Witness ==
  /\ last.op = "HandleWifiInterference"
  /\ now = 2
  /\ m_bwpStates[0].wifiPoissonMean = 500
  /\ m_bwpStates[0].totalAttempts = 1
  /\ m_bwpStates[0].totalFailures = 1
  /\ m_bwpStates[0].currentCw = m_cwMax
  /\ \E k \in PendingFor(events, "wifi", 0) : events[k].time = 6
  /\ m_bwpStates[1] = NoState

-----------------------------------------------------------------------------
(* C25: the proportional branch with a zero metric sum *)

\* the window took the branch for more terminals than maxScheduledUes and the
\* metrics of its sub-bands sum to zero
ZeroSum ==
  /\ WindowDone
  /\ Len(m_ueStats) > m_maxScheduledUes
  /\ Len(m_bwpStats) > 0
  /\ MetricSum(1)[1] = 0

\* C25: in the proportional branch with a zero metric sum nothing is divided
\* by zero: every terminal is assigned once, by an even split over the
\* sub-bands or all to a single sub-band.
C25_ZeroSumAssigned ==
  ZeroSum =>
     /\ NoTerminalTwice
     /\ \A k \in 1..Len(m_ueStats) :
          \E j \in 1..Len(last.calls) : last.calls[j][1] = m_ueStats[k].ueId
     /\ \/ \A i, j \in 1..Len(m_bwpStats) : Given(i) <= Given(j) + 1
        \/ \E i \in 1..Len(m_bwpStats) : Given(i) = Len(m_ueStats)

-----------------------------------------------------------------------------
(* C26: state after DoDispose, under SpecDisp *)

\* C26: once DoDispose has destroyed the per-sub-band state, no later event
\* creates state for an id again, in particular not an interference arrival
\* scheduled before the disposal; an id without state gets state only by a new
\* AddBwp, and that state is fresh.
C26_OnlyAddBwpCreatesState ==
  [][\A bwpId \in BwpIds :
       (m_bwpStates[bwpId] = NoState /\ m_bwpStates'[bwpId] # NoState) =>
          /\ last'.op = "AddBwp"
          /\ last'.a = bwpId
          /\ m_bwpStates'[bwpId].currentCw = m_cwMin
          /\ m_bwpStates'[bwpId].totalAttempts = 0
          /\ m_bwpStates'[bwpId].totalFailures = 0
          /\ m_bwpStates'[bwpId].lbtFailureRate = <<0, 1>>
          /\ m_bwpStates'[bwpId].wifiOccupancy = <<0, 1>>]_vars

-----------------------------------------------------------------------------
(* C27: requests for ids never registered, under Spec *)

\* C27: ChannelAccessRequest for an id never registered creates no sub-band
\* state: the controller holds state only for registered ids, and every state
\* it holds has cwMin <= currentCw <= cwMax.
C27_StateOnlyForRegistered ==
  \A bwpId \in BwpIds :
    m_bwpStates[bwpId] # NoState =>
      /\ bwpId \in lbtAdded
      /\ m_cwMin <= m_bwpStates[bwpId].currentCw
      /\ m_bwpStates[bwpId].currentCw <= m_cwMax

-----------------------------------------------------------------------------
(* C29: what a granted request changes, under Spec *)

-----------------------------------------------------------------------------
(* C30: the end of the busy interval, under Spec *)

\* C30: channelBusyUntil of a registered sub-band never decreases: an
\* interference arrival during an earlier busy interval does not shorten it.
C30_BusyUntilMonotone ==
  [][\A bwpId \in lbtAdded :
       StateAfter(bwpId).channelBusyUntil >= StateOf(bwpId).channelBusyUntil]_vars

-----------------------------------------------------------------------------
(* C31: the order of the PHY notifications, under SpecReg *)

\* the positions in the queue of the notifications pending for the terminal
NotifyFor(q, ueId) == {k \in 1..Len(q) : q[k].kind = "notify" /\ q[k].a = ueId}

\* C31: the notifications are delivered in the order of the switches that
\* caused them, each bwpSwitchLatency after its switch: a switch that moves a
\* terminal puts its notification, due bwpSwitchLatency later, behind every
\* pending one, the queue is in the order of the due times, and the delivery
\* takes the head of the queue at its due time.  Only a switch changes a
\* terminal's sub-band, and the last pending notification of a terminal carries
\* its current sub-band; hence a notification delivered with none left pending
\* for its terminal carries the terminal's current sub-band.
C31_NotificationsInOrder ==
  /\ [](/\ \A i, j \in 1..Len(events) : i < j => events[i].time <= events[j].time
        /\ \A k \in 1..Len(events) :
             now <= events[k].time /\ events[k].time <= now + BwpSwitchLatency
        /\ \A ueId \in DOMAIN m_ueMap :
             NotifyFor(events, ueId) # {} =>
               \E k \in NotifyFor(events, ueId) :
                 /\ \A j \in NotifyFor(events, ueId) : j <= k
                 /\ events[k].b = m_ueMap[ueId]
        /\ (last.op = "NotifyPhyLayer" /\ NotifyFor(events, last.a) = {})
             => /\ last.a \in DOMAIN m_ueMap
                /\ last.b = m_ueMap[last.a])
  /\ [][/\ MovingSwitch =>
             events' = Append(events, [time |-> now + BwpSwitchLatency,
                                       kind |-> "notify",
                                       a |-> last'.a, b |-> last'.b])
        /\ last'.op = "NotifyPhyLayer" =>
             /\ Head(events).time = now
             /\ Head(events).a = last'.a
             /\ Head(events).b = last'.b
             /\ events' = Tail(events)
        /\ \A ueId \in DOMAIN m_ueMap :
             (ueId \in DOMAIN m_ueMap' /\ m_ueMap'[ueId] # m_ueMap[ueId])
               => MovingSwitch /\ last'.a = ueId /\ last'.b = m_ueMap'[ueId]]_vars

\* a terminal was moved off the default sub-band and back within one latency;
\* both notifications have been delivered, the one of the return last
C31_Witness ==
  /\ last.op = "NotifyPhyLayer"
  /\ last.a \in DOMAIN m_ueMap
  /\ last.b = DefaultBwpId
  /\ m_ueMap[last.a] = DefaultBwpId
  /\ NotifyFor(events, last.a) = {}
  /\ now = BwpSwitchLatency
  /\ Cardinality(DOMAIN m_bwpMap) >= 2

-----------------------------------------------------------------------------
(* C32: the reward of an empty snapshot, under SpecRew *)

\* C32: GetReward with a snapshot of zero terminals divides nothing by zero:
\* the averaging is skipped, and the reward returned, like the total it is
\* added to, is a finite number.
C32_RewardFinite ==
  (last.op = "GetReward" /\ Len(m_ueStats) = 0) =>
     /\ last.ret # NaN
     /\ m_totalReward # NaN

=============================================================================
